---- MODULE Spec2Model ----
(***************************************************************************)
(* A model of nvtabular/ops.py: the column context kept by the transform   *)
(* operators and the running aggregates of the statistics operators        *)
(* (MinMax, Moments, Median, GroupByMoments).                              *)
(*                                                                         *)
(* Encoding of Python values                                               *)
(*   None / a missing (null) cell  <<>>                                    *)
(*   the float NaN                 <<0, 0>>                                *)
(*   a present cell v              <<v>>                                   *)
(*   a float                       <<n, d>>  the rational n/d, d > 0,      *)
(*                                 in lowest terms; <<n, d, 2>> is the     *)
(*                                 irrational square root of n/d           *)
(*   a dict                        a function whose DOMAIN is its key set  *)
(*   a list                        a sequence                              *)
(***************************************************************************)
EXTENDS Integers, Sequences, FiniteSets, TLC

\* ------------------------------------------------------------------ bounds
\* apply_op calls made on one statistics operator between two clear() calls
MaxChunks == 3
\* rows fed to one statistics operator, over all chunks, between two clear()
MaxRows == 3

\* TransformOperator.apply_op calls on one column context
MaxApplies == 2

\* rows of a chunk given to a transform operator
MaxFrameRows == 1

\* the most apply_op calls made on a statistics operator that is given a
\* different group of columns from call to call
MaxColCalls == 2

\* the longest list of target keys handed to Operator.get_columns on its own
MaxTargets == 3

\* ------------------------------------------------------------ Python values
None == <<>>
NaN == <<0, 0>>
Some(v) == <<v>>

\* the truth value Python gives an optional number (None and 0 are false)
truthy_number(v) == v # None /\ v[1] # 0

\* the truth value Python gives an optional list (None and [] are false)
truthy_list(v) == v # None /\ Len(v[1]) > 0

\* d[k] = v on a dict
Put(d, k, v) == [x \in (DOMAIN d) \cup {k} |-> IF x = k THEN v ELSE d[x]]

EmptyDict == <<>>

\* the elements of a list, as a set
Elems(s) == {s[i] : i \in DOMAIN s}

\* ------------------------------------------------------- exact float values
Abs(n) == IF n < 0 THEN -n ELSE n

RECURSIVE GCD(_, _)
GCD(a, b) == IF b = 0 THEN a ELSE GCD(b, a % b)

Norm(n, d) ==
    LET g == GCD(Abs(n), Abs(d))
        s == IF d < 0 THEN -1 ELSE 1
    IN  <<(s * n) \div g, (s * d) \div g>>

R(n) == <<n, 1>>

FAdd(a, b) == IF a = NaN \/ b = NaN THEN NaN
              ELSE Norm(a[1] * b[2] + b[1] * a[2], a[2] * b[2])

FSub(a, b) == IF a = NaN \/ b = NaN THEN NaN
              ELSE Norm(a[1] * b[2] - b[1] * a[2], a[2] * b[2])

FMul(a, b) == IF a = NaN \/ b = NaN THEN NaN
              ELSE Norm(a[1] * b[1], a[2] * b[2])

\* a / b for b # 0
FDiv(a, b) == IF a = NaN \/ b = NaN THEN NaN
              ELSE Norm(a[1] * b[2], a[2] * b[1])

FSquare(a) == FMul(a, a)

IsSquare(n) == \E k \in 0..n : k * k = n

IntSqrt(n) == CHOOSE k \in 0..n : k * k = n

\* np.sqrt of a non-negative float: exact when the root is rational
np_sqrt(a) ==
    IF a = NaN THEN NaN
    ELSE IF IsSquare(a[1]) /\ IsSquare(a[2]) THEN <<IntSqrt(a[1]), IntSqrt(a[2])>>
    ELSE <<a[1], a[2], 2>>

\* ------------------------------------------------------------- the data engine
\* Series.dropna(): the present cells, in order
dropna(s) == SelectSeq(s, LAMBDA v : v # None)

\* the values of the present cells
valid(s) == [i \in DOMAIN dropna(s) |-> dropna(s)[i][1]]

RECURSIVE SeqSum(_)
SeqSum(s) == IF Len(s) = 0 THEN 0 ELSE Head(s) + SeqSum(Tail(s))

SeqMin(s) == CHOOSE v \in Elems(s) : \A w \in Elems(s) : v <= w

SeqMax(s) == CHOOSE v \in Elems(s) : \A w \in Elems(s) : v >= w

\* Series.min() / Series.max(): nulls skipped, NaN when no cell is present
series_min(s) == IF Len(valid(s)) = 0 THEN NaN ELSE Some(SeqMin(valid(s)))

series_max(s) == IF Len(valid(s)) = 0 THEN NaN ELSE Some(SeqMax(valid(s)))

\* Series.mean(): nulls skipped, NaN when no cell is present
series_mean(s) ==
    IF Len(valid(s)) = 0 THEN NaN ELSE Norm(SeqSum(valid(s)), Len(valid(s)))

\* Series.var(): the sample variance (ddof = 1) of the present cells,
\* NaN when fewer than two are present
series_var(s) ==
    LET v == valid(s)
        k == Len(v)
        sq == [i \in DOMAIN v |-> v[i] * v[i]]
    IN  IF k < 2 THEN NaN
        ELSE Norm(k * SeqSum(sq) - SeqSum(v) * SeqSum(v), k * (k - 1))

RECURSIVE Insert(_, _)
Insert(v, s) ==
    IF Len(s) = 0 THEN <<v>>
    ELSE IF v < Head(s) THEN <<v>> \o s
    ELSE <<Head(s)>> \o Insert(v, Tail(s))

\* ascending sort of a list of numbers (list.sort, Series.sort_values)
RECURSIVE Sorted(_)
Sorted(s) == IF Len(s) = 0 THEN <<>> ELSE Insert(Head(s), Sorted(Tail(s)))

\* ---------------------------------------------------------- Python builtins
\* min(l) and max(l) on a host list: the first element, replaced by each later
\* one that compares smaller (greater). A comparison with None is a TypeError,
\* every comparison with NaN is False.
RECURSIVE py_fold(_, _, _, _)
py_fold(l, i, acc, less) ==
    IF i > Len(l) THEN [err |-> "none", val |-> acc]
    ELSE IF l[i] = None \/ acc = None THEN [err |-> "TypeError", val |-> None]
    ELSE IF l[i] = NaN \/ acc = NaN THEN py_fold(l, i + 1, acc, less)
    ELSE py_fold(l, i + 1,
                 IF (less /\ l[i][1] < acc[1]) \/ (~less /\ l[i][1] > acc[1])
                 THEN l[i] ELSE acc,
                 less)

py_min(l) ==
    IF Len(l) = 0 THEN [err |-> "ValueError", val |-> None]
    ELSE py_fold(l, 2, l[1], TRUE)

py_max(l) ==
    IF Len(l) = 0 THEN [err |-> "ValueError", val |-> None]
    ELSE py_fold(l, 2, l[1], FALSE)

\* cudf.Series(l).tolist(): a host list through the engine and back. With
\* nan_as_null the engine stores NaN as null, which comes back as None.
series_tolist(l, nan_as_null) ==
    [i \in DOMAIN l |-> IF nan_as_null /\ l[i] = NaN THEN None ELSE l[i]]

\* ------------------------------------------------------------------ Operator
\* Operator.get_columns: the explicit column list if it is truthy, else the
\* concatenation of the context's lists for the target keys that are present
\* the loop of Operator.get_columns, had it put each target's list in front of
\* the lists gathered so far
RECURSIVE concat_targets_prepend(_, _)
concat_targets_prepend(grp, target_cols) ==
    IF Len(target_cols) = 0 THEN <<>>
    ELSE concat_targets_prepend(grp, Tail(target_cols))
         \o (IF Head(target_cols) \in DOMAIN grp THEN grp[Head(target_cols)] ELSE <<>>)

RECURSIVE concat_targets(_, _)
concat_targets(grp, target_cols) ==
    IF Len(target_cols) = 0 THEN <<>>
    ELSE (IF Head(target_cols) \in DOMAIN grp THEN grp[Head(target_cols)] ELSE <<>>)
         \o concat_targets(grp, Tail(target_cols))

get_columns(columns, cols_ctx, cols_grp, target_cols) ==
    IF truthy_list(columns) THEN [err |-> "none", val |-> columns[1]]
    ELSE IF Len(target_cols) = 0 THEN [err |-> "none", val |-> <<>>]
    ELSE IF cols_grp \notin DOMAIN cols_ctx THEN [err |-> "KeyError", val |-> <<>>]
    ELSE [err |-> "none", val |-> concat_targets(cols_ctx[cols_grp], target_cols)]

\* the default of target_cols in TransformOperator.apply_op: the list ["base"]
TransformOperator_default_target_cols == <<"base">>

\* the default of target_cols in the statistics operators' apply_op: the
\* string "base", which the loop of get_columns iterates character by
\* character
StatOperator_default_target_cols == <<"b", "a", "s", "e">>

\* --------------------------------------------------------------- the dataset
\* the columns of the dataset fed to the statistics operators
Cols == {"x"}

\* the dataset's columns, in order
ColOrder == <<"x">>

\* the order in which a dict keyed by column names is iterated: the order in
\* which the columns were first met
KeyOrder == <<"x", "c">>

dict_keys(d) == SelectSeq(KeyOrder, LAMBDA c : c \in DOMAIN d)

\* the values a present cell may hold (for an object column they stand for
\* strings in lexicographic order)
Values == {1, 2}

Cells == {None} \cup {Some(v) : v \in Values}

\* A data frame is [columns |-> its column names in order, data |-> the cells
\* of each column]. The chunks of at most n rows of the dataset:
Frames(n) ==
    {[columns |-> ColOrder, data |-> d] : d \in UNION {[Cols -> [1..k -> Cells]] : k \in 0..n}}

\* len(gdf): the number of rows
len_gdf(gdf) ==
    IF Len(gdf.columns) = 0 THEN 0 ELSE Len(gdf.data[gdf.columns[1]])

\* the frames of a list of chunks, concatenated into one chunk
RECURSIVE concat_frames(_)
concat_frames(chunks) ==
    IF Len(chunks) = 0 THEN [columns |-> ColOrder, data |-> [c \in Cols |-> <<>>]]
    ELSE [columns |-> ColOrder,
          data |-> [c \in Cols |-> Head(chunks).data[c] \o concat_frames(Tail(chunks)).data[c]]]

\* the column context the driver hands to the statistics operators
StatCtx == [all |-> [base |-> ColOrder]]

\* -------------------------------------------------------------------- MinMax
MinMax_init ==
    [cls |-> "MinMax", columns |-> None,
     batch_mins |-> EmptyDict, batch_maxs |-> EmptyDict,
     mins |-> EmptyDict, maxs |-> EmptyDict]

\* MinMax.apply_op's loop body, had it kept a running minimum and maximum in
\* mins and maxs as well
MinMax_apply_col_running(self, gdf, col, engine) ==
    LET gdf_col == dropna(gdf.data[col])
        col_min == series_min(gdf_col)
        col_max == series_max(gdf_col)
        bmins == IF col \notin DOMAIN self.batch_mins
                 THEN Put(self.batch_mins, col, <<>>) ELSE self.batch_mins
        bmaxs == IF col \notin DOMAIN self.batch_mins
                 THEN Put(self.batch_maxs, col, <<>>) ELSE self.batch_maxs
    IN  [self |-> [self EXCEPT
                     !.batch_mins = Put(bmins, col, Append(bmins[col], col_min)),
                     !.batch_maxs = Put(bmaxs, col, Append(bmaxs[col], col_max)),
                     !.mins = Put(@, col, col_min),
                     !.maxs = Put(@, col, col_max)],
         err |-> "none"]

\* the body of MinMax.apply_op's loop, for one column
MinMax_apply_col(self, gdf, col, engine) ==
    LET gdf_col == dropna(gdf.data[col])
        col_min == IF engine.dtype # "object"
                   THEN [err |-> "none", val |-> series_min(gdf_col)]
                   ELSE py_min(gdf_col)
        col_max == IF engine.dtype # "object"
                   THEN [err |-> "none", val |-> series_max(gdf_col)]
                   ELSE py_max(gdf_col)
        bmins == IF col \notin DOMAIN self.batch_mins
                 THEN Put(self.batch_mins, col, <<>>) ELSE self.batch_mins
        bmaxs == IF col \notin DOMAIN self.batch_mins
                 THEN Put(self.batch_maxs, col, <<>>) ELSE self.batch_maxs
    IN  IF col_min.err # "none" THEN [self |-> self, err |-> col_min.err]
        ELSE IF col_max.err # "none" THEN [self |-> self, err |-> col_max.err]
        ELSE [self |-> [self EXCEPT
                          !.batch_mins = Put(bmins, col, Append(bmins[col], col_min.val)),
                          !.batch_maxs = Put(bmaxs, col, Append(bmaxs[col], col_max.val))],
              err |-> "none"]

RECURSIVE MinMax_apply_cols(_, _, _, _)
MinMax_apply_cols(st, gdf, cols, engine) ==
    IF Len(cols) = 0 \/ st.err # "none" THEN st
    ELSE MinMax_apply_cols(MinMax_apply_col(st.self, gdf, Head(cols), engine),
                           gdf, Tail(cols), engine)

MinMax_apply_op(self, gdf, columns_ctx, input_cols, target_cols, engine) ==
    LET cols == get_columns(self.columns, columns_ctx, input_cols, target_cols)
    IN  IF cols.err # "none" THEN [self |-> self, err |-> cols.err]
        ELSE MinMax_apply_cols([self |-> self, err |-> "none"], gdf, cols.val, engine)

\* the body of MinMax.read_fin's loop, for one column
MinMax_fin_col(self, col, engine) ==
    LET bmins == series_tolist(self.batch_mins[col], engine.nan_as_null)
        bmaxs == series_tolist(self.batch_maxs[col], engine.nan_as_null)
        s1 == [self EXCEPT !.batch_mins = Put(@, col, bmins),
                           !.batch_maxs = Put(@, col, bmaxs)]
        mn == py_min(bmins)
        mx == py_max(bmaxs)
    IN  IF mn.err # "none" THEN [self |-> s1, err |-> mn.err]
        ELSE IF mx.err # "none"
        THEN [self |-> [s1 EXCEPT !.mins = Put(@, col, mn.val)], err |-> mx.err]
        ELSE [self |-> [s1 EXCEPT !.mins = Put(@, col, mn.val),
                                  !.maxs = Put(@, col, mx.val)],
              err |-> "none"]

RECURSIVE MinMax_fin_cols(_, _, _)
MinMax_fin_cols(st, cols, engine) ==
    IF Len(cols) = 0 \/ st.err # "none" THEN st
    ELSE MinMax_fin_cols(MinMax_fin_col(st.self, Head(cols), engine), Tail(cols), engine)

MinMax_read_fin(self, engine) ==
    MinMax_fin_cols([self |-> self, err |-> "none"], dict_keys(self.batch_mins), engine)

\* MinMax.clear, had it emptied the per-chunk lists only
MinMax_clear_batches_only(self) ==
    [self EXCEPT !.batch_mins = EmptyDict, !.batch_maxs = EmptyDict]

MinMax_clear(self) ==
    [self EXCEPT !.batch_mins = EmptyDict, !.batch_maxs = EmptyDict,
                 !.mins = EmptyDict, !.maxs = EmptyDict]

\* ------------------------------------------------------------------- Moments
Moments_init ==
    [cls |-> "Moments", columns |-> None,
     counts |-> EmptyDict, means |-> EmptyDict,
     varis |-> EmptyDict, stds |-> EmptyDict]

\* the body of Moments.apply_op's loop, for one column. engine.float_div says
\* what x / 0.0 does: "python" raises ZeroDivisionError, "numpy" gives NaN.
Moments_apply_col(self, gdf, col, engine) ==
    LET s0 == IF col \notin DOMAIN self.counts
              THEN [self EXCEPT !.counts = Put(@, col, R(0)),
                                !.means = Put(@, col, R(0)),
                                !.varis = Put(@, col, R(0)),
                                !.stds = Put(@, col, R(0))]
              ELSE self
        n1 == s0.counts[col]
        n2 == R(len_gdf(gdf))
        v1 == s0.varis[col]
        v2 == series_var(gdf.data[col])
        m1 == s0.means[col]
        m2 == series_mean(gdf.data[col])
        count == FAdd(n1, n2)
        s1 == [s0 EXCEPT !.counts = Put(@, col, count)]
        mean == IF count = R(0) THEN NaN
                ELSE FDiv(FAdd(FMul(m1, n1), FMul(m2, n2)), count)
        t1 == FMul(n1, v1)
        t2 == FMul(n2, v2)
        t3 == FMul(n1, FSquare(FSub(m1, mean)))
        t4 == FMul(n2, FSquare(FSub(m2, mean)))
        t5 == FAdd(n1, n2)
        vari == IF t5 = R(0) THEN NaN
                ELSE FDiv(FAdd(FAdd(FAdd(t1, t2), t3), t4), t5)
    IN  IF count = R(0) /\ engine.float_div = "python"
        THEN [self |-> s1, err |-> "ZeroDivisionError"]
        ELSE [self |-> [s1 EXCEPT !.means = Put(@, col, mean),
                                  !.varis = Put(@, col, vari)],
              err |-> "none"]

RECURSIVE Moments_apply_cols(_, _, _, _)
Moments_apply_cols(st, gdf, cols, engine) ==
    IF Len(cols) = 0 \/ st.err # "none" THEN st
    ELSE Moments_apply_cols(Moments_apply_col(st.self, gdf, Head(cols), engine),
                            gdf, Tail(cols), engine)

Moments_apply_op(self, gdf, columns_ctx, input_cols, target_cols, engine) ==
    LET cols == get_columns(self.columns, columns_ctx, input_cols, target_cols)
    IN  IF cols.err # "none" THEN [self |-> self, err |-> cols.err]
        ELSE Moments_apply_cols([self |-> self, err |-> "none"], gdf, cols.val, engine)

RECURSIVE Moments_fin_cols(_, _)
Moments_fin_cols(self, cols) ==
    IF Len(cols) = 0 THEN self
    ELSE Moments_fin_cols(
             [self EXCEPT !.stds = Put(@, Head(cols), np_sqrt(self.varis[Head(cols)]))],
             Tail(cols))

\* Moments.read_fin, had it given every column of the dataset a standard
\* deviation, zero where nothing was accumulated
Moments_read_fin_zeros(self) ==
    [self |-> [self EXCEPT !.stds =
                  [c \in Elems(ColOrder) |->
                     IF c \in DOMAIN self.varis THEN np_sqrt(self.varis[c]) ELSE R(0)]],
     err |-> "none"]

Moments_read_fin(self) ==
    [self |-> Moments_fin_cols(self, dict_keys(self.varis)), err |-> "none"]

Moments_clear(self) ==
    [self EXCEPT !.counts = EmptyDict, !.means = EmptyDict,
                 !.varis = EmptyDict, !.stds = EmptyDict]

\* -------------------------------------------------------------------- Median
Median_init(fill) ==
    [cls |-> "Median", columns |-> None, fill |-> fill,
     batch_medians |-> EmptyDict, medians |-> EmptyDict]

\* col[k] where col is the column after dropna().reset_index(drop=True)
\* .sort_values() and s holds the present values in their original order.
\* engine.getitem says how the engine reads an integer key: "iloc" by position
\* in the sorted series, "loc" by index label (the position before the sort).
sorted_getitem(s, k, engine) ==
    IF engine.getitem = "iloc" THEN Sorted(s)[k + 1] ELSE s[k + 1]

\* the body of Median.apply_op's loop, for one column
\* the body of Median.apply_op's loop, had the columns shared one list of
\* per-chunk entries
Median_apply_col_shared(self, gdf, name, engine) ==
    LET bm == IF name \notin DOMAIN self.batch_medians
              THEN Put(self.batch_medians, name, <<>>) ELSE self.batch_medians
        col == valid(gdf.data[name])
        rep == IF truthy_number(self.fill) THEN self.fill[1]
               ELSE IF Len(col) > 1 THEN sorted_getitem(col, Len(col) \div 2, engine)
               ELSE 0
    IN  [self EXCEPT !.batch_medians = [c \in DOMAIN bm |-> Append(bm[c], rep)]]

Median_apply_col(self, gdf, name, engine) ==
    LET bm == IF name \notin DOMAIN self.batch_medians
              THEN Put(self.batch_medians, name, <<>>) ELSE self.batch_medians
        col == valid(gdf.data[name])
        rep == IF truthy_number(self.fill) THEN self.fill[1]
               ELSE IF Len(col) > 1 THEN sorted_getitem(col, Len(col) \div 2, engine)
               ELSE 0
    IN  [self EXCEPT !.batch_medians = Put(bm, name, Append(bm[name], rep))]

RECURSIVE Median_apply_cols(_, _, _, _)
Median_apply_cols(self, gdf, cols, engine) ==
    IF Len(cols) = 0 THEN self
    ELSE Median_apply_cols(Median_apply_col(self, gdf, Head(cols), engine),
                           gdf, Tail(cols), engine)

Median_apply_op(self, gdf, columns_ctx, input_cols, target_cols, engine) ==
    LET cols == get_columns(self.columns, columns_ctx, input_cols, target_cols)
    IN  IF cols.err # "none" THEN [self |-> self, err |-> cols.err]
        ELSE [self |-> Median_apply_cols(self, gdf, cols.val, engine), err |-> "none"]

\* the body of Median.read_fin's loop, had it kept of the list only the
\* middle element it takes
Median_fin_col_middle_only(self, col) ==
    LET bm == Sorted(self.batch_medians[col])
    IN  [self EXCEPT !.batch_medians = Put(@, col, <<bm[(Len(bm) \div 2) + 1]>>),
                     !.medians = Put(@, col, bm[(Len(bm) \div 2) + 1])]

\* the body of Median.read_fin's loop, had it taken the middle element
\* before sorting the list
Median_fin_col_sort_after(self, col) ==
    LET l == self.batch_medians[col]
    IN  [self EXCEPT !.batch_medians = Put(@, col, Sorted(l)),
                     !.medians = Put(@, col, l[(Len(l) \div 2) + 1])]

\* the body of Median.read_fin's loop, for one column: the list is sorted in
\* place and its middle element taken
Median_fin_col(self, col) ==
    LET bm == Sorted(self.batch_medians[col])
    IN  [self EXCEPT !.batch_medians = Put(@, col, bm),
                     !.medians = Put(@, col, bm[(Len(bm) \div 2) + 1])]

RECURSIVE Median_fin_cols(_, _)
Median_fin_cols(self, cols) ==
    IF Len(cols) = 0 THEN self
    ELSE Median_fin_cols(Median_fin_col(self, Head(cols)), Tail(cols))

Median_read_fin(self) ==
    [self |-> Median_fin_cols(self, dict_keys(self.batch_medians)), err |-> "none"]

Median_clear(self) ==
    [self EXCEPT !.batch_medians = EmptyDict, !.medians = EmptyDict]

\* ------------------------------------------------------------------- Encoder
\* nvtabular.encoder.DLLabelEncoder: the categories of one column in the order
\* they were first seen, and how often each was seen
DLLabelEncoder_init(name, use_frequency, freq_threshold) ==
    [col |-> name, use_frequency |-> use_frequency, freq_threshold |-> freq_threshold,
     cats |-> <<>>, counts |-> EmptyDict, fitted |-> <<>>]

\* DLLabelEncoder.fit, row by row: a new category is appended to the table,
\* a known one counted, a missing value passed over
RECURSIVE DLLabelEncoder_fit_rows(_, _)
DLLabelEncoder_fit_rows(encoder, col) ==
    IF Len(col) = 0 THEN encoder
    ELSE LET v == Head(col)
             seen == IF v = None THEN encoder
                     ELSE IF v[1] \in DOMAIN encoder.counts
                     THEN [encoder EXCEPT !.counts[v[1]] = @ + 1]
                     ELSE [encoder EXCEPT !.cats = Append(@, v[1]),
                                          !.counts = Put(@, v[1], 1)]
         IN  DLLabelEncoder_fit_rows(seen, Tail(col))

\* DLLabelEncoder.fit; fitted keeps the series each fit call was given
DLLabelEncoder_fit(encoder, col) ==
    [DLLabelEncoder_fit_rows(encoder, col) EXCEPT !.fitted = Append(@, col)]

\* DLLabelEncoder.fit_finalize: the number of categories of the finished table
DLLabelEncoder_fit_finalize(encoder) == Len(encoder.cats)

\* Encoder.__init__
Encoder_init(use_frequency, freq_threshold) ==
    [cls |-> "Encoder", columns |-> None,
     use_frequency |-> use_frequency, freq_threshold |-> freq_threshold,
     encoders |-> EmptyDict, categories |-> EmptyDict]

\* the body of Encoder.apply_op's loop, for one column; gdf[name].append([None])
\* builds a series nothing keeps
Encoder_apply_col(self, gdf, name) ==
    LET made == IF name \notin DOMAIN self.encoders
                THEN [self EXCEPT !.encoders =
                        Put(@, name,
                            IF self.use_frequency
                            THEN DLLabelEncoder_init(name, TRUE, self.freq_threshold)
                            ELSE DLLabelEncoder_init(name, FALSE, 0))]
                ELSE self
    IN  [made EXCEPT !.encoders[name] = DLLabelEncoder_fit(@, gdf.data[name])]

RECURSIVE Encoder_apply_cols(_, _, _)
Encoder_apply_cols(self, gdf, cols) ==
    IF Len(cols) = 0 THEN self
    ELSE Encoder_apply_cols(Encoder_apply_col(self, gdf, Head(cols)), gdf, Tail(cols))

Encoder_apply_op(self, gdf, columns_ctx, input_cols, target_cols) ==
    LET cols == get_columns(self.columns, columns_ctx, input_cols, target_cols)
    IN  IF cols.err # "none" THEN [self |-> self, err |-> cols.err]
        ELSE IF \E n \in Elems(cols.val) : n \notin Elems(gdf.columns)
        THEN [self |-> self, err |-> "KeyError"]
        ELSE [self |-> Encoder_apply_cols(self, gdf, cols.val), err |-> "none"]

RECURSIVE Encoder_fin_cols(_, _)
Encoder_fin_cols(self, names) ==
    IF Len(names) = 0 THEN self
    ELSE Encoder_fin_cols(
             [self EXCEPT !.categories =
                 Put(@, Head(names), DLLabelEncoder_fit_finalize(self.encoders[Head(names)]))],
             Tail(names))

Encoder_read_fin(self) ==
    [self |-> Encoder_fin_cols(self, dict_keys(self.encoders)), err |-> "none"]

Encoder_clear(self) ==
    [self EXCEPT !.encoders = EmptyDict, !.categories = EmptyDict]

\* ------------------------------------------------------------ GroupByMoments
\* nvtabular.groupby.GroupByMomentsCal: per key of the grouped column, the
\* count of its rows and the sum of each continuous column over them
GroupByMomentsCal_init(col, col_count, cont_col, stats) ==
    [col |-> col, col_count |-> col_count, cont_col |-> cont_col,
     stats |-> stats, table |-> EmptyDict]

RECURSIVE GroupByMomentsCal_fit_rows(_, _, _, _)
GroupByMomentsCal_fit_rows(table, cal, gdf, i) ==
    IF i > len_gdf(gdf) THEN table
    ELSE LET key == gdf.data[cal.col][i]
             conts == IF cal.cont_col = None THEN {} ELSE Elems(cal.cont_col[1])
             old == IF key = None \/ key[1] \notin DOMAIN table
                    THEN [count |-> 0, sum |-> [c \in conts |-> 0]]
                    ELSE table[key[1]]
             new == [count |-> old.count + 1,
                     sum |-> [c \in conts |->
                                old.sum[c] + (IF gdf.data[c][i] = None THEN 0 ELSE gdf.data[c][i][1])]]
         IN  GroupByMomentsCal_fit_rows(
                 IF key = None THEN table ELSE Put(table, key[1], new), cal, gdf, i + 1)

GroupByMomentsCal_fit(cal, gdf) ==
    [cal EXCEPT !.table = GroupByMomentsCal_fit_rows(cal.table, cal, gdf, 1)]

GroupByMomentsCal_fit_finalize(cal) == cal.table

GroupByMoments_init(cat_names, cont_names, stats) ==
    [cls |-> "GroupByMoments", columns |-> None,
     cat_names |-> cat_names, cont_names |-> cont_names, stats |-> stats,
     moments |-> EmptyDict, categories |-> EmptyDict]

supported_ops == {"count", "sum"}

\* the checks that open GroupByMoments.apply_op, without the one on the names
\* of the statistics
GroupByMoments_validate_any_stat(self) ==
    IF self.cat_names = None THEN "ValueError"
    ELSE IF self.cont_names = None /\ "count" \notin Elems(self.stats) THEN "ValueError"
    ELSE "none"

\* the three checks that open GroupByMoments.apply_op
GroupByMoments_validate(self) ==
    IF self.cat_names = None THEN "ValueError"
    ELSE IF self.cont_names = None /\ "count" \notin Elems(self.stats) THEN "ValueError"
    ELSE IF \E ops \in Elems(self.stats) : ops \notin supported_ops THEN "ValueError"
    ELSE "none"

\* the body of GroupByMoments.apply_op's loop, had it built a new aggregate
\* for the column on every chunk
GroupByMoments_apply_col_fresh(self, gdf, cols, name) ==
    IF name \notin Elems(self.cat_names[1]) THEN [self |-> self, err |-> "none"]
    ELSE IF self.cont_names = None /\ cols[1] # name /\ Len(cols) < 2
    THEN [self |-> self, err |-> "IndexError"]
    ELSE IF self.cont_names # None /\ Len(self.cont_names[1]) = 0
    THEN [self |-> self, err |-> "IndexError"]
    ELSE LET col_count == IF self.cont_names = None
                          THEN (IF cols[1] = name THEN cols[1] ELSE cols[2])
                          ELSE self.cont_names[1][1]
             col_names == IF self.cont_names = None THEN <<name, col_count>>
                          ELSE Append(self.cont_names[1], name)
             made == GroupByMomentsCal_init(name, col_count, self.cont_names, self.stats)
         IN  IF \E c \in Elems(col_names) : c \notin DOMAIN gdf.data
             THEN [self |-> [self EXCEPT !.moments = Put(@, name, made)], err |-> "KeyError"]
             ELSE [self |-> [self EXCEPT !.moments =
                               Put(@, name, GroupByMomentsCal_fit(made, gdf))],
                   err |-> "none"]

\* the body of GroupByMoments.apply_op's loop, for one column
GroupByMoments_apply_col(self, gdf, cols, name) ==
    IF name \notin Elems(self.cat_names[1]) THEN [self |-> self, err |-> "none"]
    ELSE IF self.cont_names = None /\ cols[1] # name /\ Len(cols) < 2
    THEN [self |-> self, err |-> "IndexError"]
    ELSE IF self.cont_names # None /\ Len(self.cont_names[1]) = 0
    THEN [self |-> self, err |-> "IndexError"]
    ELSE LET col_count == IF self.cont_names = None
                          THEN (IF cols[1] = name THEN cols[1] ELSE cols[2])
                          ELSE self.cont_names[1][1]
             col_names == IF self.cont_names = None THEN <<name, col_count>>
                          ELSE Append(self.cont_names[1], name)
             moments == IF name \notin DOMAIN self.moments
                        THEN Put(self.moments, name,
                                 GroupByMomentsCal_init(name, col_count,
                                                        self.cont_names, self.stats))
                        ELSE self.moments
         IN  IF \E c \in Elems(col_names) : c \notin DOMAIN gdf.data
             THEN [self |-> [self EXCEPT !.moments = moments], err |-> "KeyError"]
             ELSE [self |-> [self EXCEPT !.moments =
                               Put(moments, name, GroupByMomentsCal_fit(moments[name], gdf))],
                   err |-> "none"]

RECURSIVE GroupByMoments_apply_cols(_, _, _, _)
GroupByMoments_apply_cols(st, gdf, cols, rest) ==
    IF Len(rest) = 0 \/ st.err # "none" THEN st
    ELSE GroupByMoments_apply_cols(GroupByMoments_apply_col(st.self, gdf, cols, Head(rest)),
                                   gdf, cols, Tail(rest))

GroupByMoments_apply_op(self, gdf, columns_ctx, input_cols, target_cols) ==
    LET cols == get_columns(self.columns, columns_ctx, input_cols, target_cols)
    IN  IF GroupByMoments_validate(self) # "none"
        THEN [self |-> self, err |-> GroupByMoments_validate(self)]
        ELSE IF cols.err # "none" THEN [self |-> self, err |-> cols.err]
        ELSE GroupByMoments_apply_cols([self |-> self, err |-> "none"],
                                       gdf, cols.val, cols.val)

RECURSIVE GroupByMoments_fin_cols(_, _)
GroupByMoments_fin_cols(self, names) ==
    IF Len(names) = 0 THEN self
    ELSE GroupByMoments_fin_cols(
             [self EXCEPT !.categories =
                 Put(@, Head(names), GroupByMomentsCal_fit_finalize(self.moments[Head(names)]))],
             Tail(names))

GroupByMoments_read_fin(self) ==
    [self |-> GroupByMoments_fin_cols(self, dict_keys(self.moments)), err |-> "none"]

GroupByMoments_clear(self) ==
    [self EXCEPT !.moments = EmptyDict, !.categories = EmptyDict]

\* ------------------------------------------------- the statistics operators
\* the method an operator object's class gives it
apply_op(self, gdf, columns_ctx, input_cols, target_cols, engine) ==
    CASE self.cls = "MinMax" ->
           MinMax_apply_op(self, gdf, columns_ctx, input_cols, target_cols, engine)
      [] self.cls = "Moments" ->
           Moments_apply_op(self, gdf, columns_ctx, input_cols, target_cols, engine)
      [] self.cls = "Median" ->
           Median_apply_op(self, gdf, columns_ctx, input_cols, target_cols, engine)
      [] self.cls = "Encoder" ->
           Encoder_apply_op(self, gdf, columns_ctx, input_cols, target_cols)
      [] self.cls = "GroupByMoments" ->
           GroupByMoments_apply_op(self, gdf, columns_ctx, input_cols, target_cols)

read_fin(self, engine) ==
    CASE self.cls = "MinMax" -> MinMax_read_fin(self, engine)
      [] self.cls = "Moments" -> Moments_read_fin(self)
      [] self.cls = "Median" -> Median_read_fin(self)
      [] self.cls = "Encoder" -> Encoder_read_fin(self)
      [] self.cls = "GroupByMoments" -> GroupByMoments_read_fin(self)

clear(self) ==
    CASE self.cls = "MinMax" -> MinMax_clear(self)
      [] self.cls = "Moments" -> Moments_clear(self)
      [] self.cls = "Median" -> Median_clear(self)
      [] self.cls = "Encoder" -> Encoder_clear(self)
      [] self.cls = "GroupByMoments" -> GroupByMoments_clear(self)

\* ------------------------------------------------------------- data frames
CONT == "continuous"

CAT == "categorical"

ALL == "all"

EmptyFrame == [columns |-> <<>>, data |-> EmptyDict]

\* every name is a column of the frame
has_columns(gdf, names) == \A n \in Elems(names) : n \in Elems(gdf.columns)

\* gdf[names]: the frame of the named columns
getitem_columns(gdf, names) ==
    [columns |-> names, data |-> [n \in Elems(names) |-> gdf.data[n]]]

\* gdf.columns = names: the columns renamed, by position
set_columns(gdf, names) ==
    [columns |-> names,
     data |-> [n \in Elems(names) |->
                 gdf.data[gdf.columns[CHOOSE i \in DOMAIN names : names[i] = n]]]]

\* the names with "_<operator id>" appended
suffixed(names, id) == [i \in DOMAIN names |-> names[i] \o "_" \o id]

\* bool(frame): a frame is true when it has rows
truthy_frame(gdf) == len_gdf(gdf) > 0

\* gdf[names] = value for a frame value: the columns are paired by position;
\* a different number of columns is a ValueError; a name the frame lacks is
\* inserted after its columns
RECURSIVE setitem_pairs(_, _, _, _)
setitem_pairs(gdf, names, value, i) ==
    IF i > Len(names) THEN gdf
    ELSE setitem_pairs(
             [columns |-> IF names[i] \in Elems(gdf.columns) THEN gdf.columns
                          ELSE Append(gdf.columns, names[i]),
              data |-> Put(gdf.data, names[i], value.data[value.columns[i]])],
             names, value, i + 1)

setitem_frame(gdf, names, value) ==
    IF Len(names) # Len(value.columns) THEN [err |-> "ValueError", frame |-> gdf]
    ELSE [err |-> "none", frame |-> setitem_pairs(gdf, names, value, 1)]

\* cudf.concat([a, b], axis=1): the columns of b after those of a
concat_columns(a, b) ==
    [columns |-> a.columns \o b.columns,
     data |-> [n \in Elems(a.columns) \cup Elems(b.columns) |->
                 IF n \in Elems(b.columns) THEN b.data[n] ELSE a.data[n]]]

\* --------------------------------------------------------------- cell values
\* a float whose value is not tracked
Opaque == <<0, 0, 0>>

NegInf == <<-1, 0>>

IsRational(q) == Len(q) = 2 /\ q[2] > 0

\* a present cell as a float: an integer cell <<v>> is v/1
to_float(cell) == IF Len(cell) = 1 THEN R(cell[1]) ELSE cell

\* x > 0 on a float (False for NaN)
float_gt0(q) == Len(q) \in {2, 3} /\ q[2] > 0 /\ q[1] > 0

\* x < 0 on a present cell
cell_lt0(cell) == IF Len(cell) = 1 THEN cell[1] < 0
                  ELSE Len(cell) = 2 /\ cell[1] < 0

\* np.log: exact at 1, -inf at 0, NaN below, else the symbol <<n, d, 3>>
np_log(q) ==
    IF q = NaN THEN NaN
    ELSE IF ~IsRational(q) THEN Opaque
    ELSE IF q[1] < 0 THEN NaN
    ELSE IF q[1] = 0 THEN NegInf
    ELSE IF q = R(1) THEN R(0)
    ELSE <<q[1], q[2], 3>>

\* ------------------------------------------------------- TransformOperator
\* TransformOperator.__init__ for a class cls
TransformOperator_init(cls, columns, preprocessing, replace) ==
    [cls |-> cls, columns |-> columns, preprocessing |-> preprocessing,
     replace |-> replace]

\* Operator._id: the class name
id_of(self) == self.cls

\* the class attribute default_out
default_out(self) ==
    CASE self.cls \in {"ZeroFill", "LogOp", "Normalize", "FillMissing"} -> CONT
      [] self.cls \in {"GroupBy", "Categorify"} -> CAT
      [] self.cls = "Export" -> ALL

\* what op_logic hands back: a frame, None, or an exception
Ok(frame) == [err |-> "none", is_none |-> FALSE, frame |-> frame]

ReturnsNone == [err |-> "none", is_none |-> TRUE, frame |-> EmptyFrame]

Raises(e) == [err |-> e, is_none |-> TRUE, frame |-> EmptyFrame]

\* ZeroFill.op_logic
ZeroFill_cell(cell) == IF cell = None THEN Some(0)
                       ELSE IF cell_lt0(cell) THEN Some(0) ELSE cell

ZeroFill_op_logic(self, gdf, target_columns, stats_context) ==
    IF Len(target_columns) = 0 THEN Ok(gdf)
    ELSE IF ~has_columns(gdf, target_columns) THEN Raises("KeyError")
    ELSE LET z_gdf == set_columns(getitem_columns(gdf, target_columns),
                                  suffixed(target_columns, id_of(self)))
         IN  Ok([z_gdf EXCEPT !.data =
                    [n \in DOMAIN @ |-> [i \in DOMAIN @[n] |-> ZeroFill_cell(@[n][i])]]])

\* LogOp.op_logic
LogOp_cell(cell) == IF cell = None THEN None
                    ELSE IF Len(cell) = 3 THEN Opaque
                    ELSE np_log(FAdd(to_float(cell), R(1)))

LogOp_op_logic(self, gdf, target_columns, stats_context) ==
    IF Len(target_columns) = 0 THEN Ok(gdf)
    ELSE IF ~has_columns(gdf, target_columns) THEN Raises("KeyError")
    ELSE LET new_gdf == set_columns(getitem_columns(gdf, target_columns),
                                    suffixed(target_columns, id_of(self)))
         IN  Ok([new_gdf EXCEPT !.data =
                    [n \in DOMAIN @ |-> [i \in DOMAIN @[n] |-> LogOp_cell(@[n][i])]]])

\* the arithmetic of Normalize.apply_mean_std, had it divided by the std
\* without taking the mean away first
Normalize_cell_unshifted(cell, mean, std) ==
    IF cell = None THEN None
    ELSE IF Len(cell) = 3 \/ Len(std) = 3 \/ Len(mean) = 3 THEN Opaque
    ELSE FDiv(to_float(cell), std)

\* Normalize.apply_mean_std: one output column per target whose std is > 0
Normalize_cell(cell, mean, std) ==
    IF cell = None THEN None
    ELSE IF Len(cell) = 3 \/ Len(std) = 3 \/ Len(mean) = 3 THEN Opaque
    ELSE FDiv(FSub(to_float(cell), mean), std)

RECURSIVE Normalize_apply_mean_std(_, _, _, _, _)
Normalize_apply_mean_std(self, new_gdf, gdf, stats_context, cont_names) ==
    IF Len(cont_names) = 0 THEN Ok(new_gdf)
    ELSE LET name == Head(cont_names)
             new_col == name \o "_" \o id_of(self)
         IN  IF name \notin DOMAIN stats_context.stds THEN Raises("KeyError")
             ELSE IF ~float_gt0(stats_context.stds[name])
             THEN Normalize_apply_mean_std(self, new_gdf, gdf, stats_context,
                                           Tail(cont_names))
             ELSE IF name \notin Elems(gdf.columns)
                     \/ name \notin DOMAIN stats_context.means
             THEN Raises("KeyError")
             ELSE Normalize_apply_mean_std(
                      self,
                      [columns |-> IF new_col \in Elems(new_gdf.columns)
                                   THEN new_gdf.columns
                                   ELSE Append(new_gdf.columns, new_col),
                       data |-> Put(new_gdf.data, new_col,
                                    [i \in DOMAIN gdf.data[name] |->
                                       Normalize_cell(gdf.data[name][i],
                                                      stats_context.means[name],
                                                      stats_context.stds[name])])],
                      gdf, stats_context, Tail(cont_names))

\* Normalize.op_logic, had it handed the chunk back where it returns nothing
Normalize_op_logic_returns_gdf(self, gdf, target_columns, stats_context) ==
    IF Len(target_columns) = 0 THEN Ok(gdf)
    ELSE IF "stds" \notin DOMAIN stats_context THEN Raises("KeyError")
    ELSE IF stats_context.stds = EmptyDict THEN Ok(gdf)
    ELSE Normalize_apply_mean_std(self, EmptyFrame, gdf, stats_context, target_columns)

\* Normalize.op_logic
Normalize_op_logic(self, gdf, target_columns, stats_context) ==
    IF Len(target_columns) = 0 THEN ReturnsNone
    ELSE IF "stds" \notin DOMAIN stats_context THEN Raises("KeyError")
    ELSE IF stats_context.stds = EmptyDict THEN ReturnsNone
    ELSE Normalize_apply_mean_std(self, EmptyFrame, gdf, stats_context, target_columns)

\* FillMissing.__init__
FillMissing_init(fill_strategy, fill_val, add_col, columns, preprocessing, replace) ==
    [cls |-> "FillMissing", columns |-> columns, preprocessing |-> preprocessing,
     replace |-> replace, fill_strategy |-> fill_strategy, fill_val |-> fill_val,
     add_col |-> add_col]

\* gdf[name].isna().sum(): the number of missing cells of the column
isna_sum(col) == Len(col) - Len(dropna(col))

\* the names of cont_names, in order, whose column has a missing cell
RECURSIVE na_names_of(_, _)
na_names_of(gdf, cont_names) ==
    IF Len(cont_names) = 0 THEN <<>>
    ELSE (IF isna_sum(gdf.data[Head(cont_names)]) > 0 THEN <<Head(cont_names)>> ELSE <<>>)
         \o na_names_of(gdf, Tail(cont_names))

\* FillMissing.add_na_indicators: the frame it is given is replaced by an
\* empty one before the loop reads gdf[name] from it
FillMissing_add_na_indicators(gdf, na_names, cat_names) ==
    IF Len(na_names) = 0 THEN Ok(EmptyFrame) ELSE Raises("KeyError")

\* the loop of FillMissing.apply_filler, had it filled nothing
FillMissing_fill_nothing(gdf, stats_context, na_names) == Ok(gdf)

\* the loop of FillMissing.apply_filler: fillna with the column's median
RECURSIVE FillMissing_fill(_, _, _)
FillMissing_fill(gdf, stats_context, na_names) ==
    IF Len(na_names) = 0 THEN Ok(gdf)
    ELSE LET col == Head(na_names)
         IN  IF col \notin Elems(gdf.columns) \/ col \notin DOMAIN stats_context.medians
             THEN Raises("KeyError")
             ELSE FillMissing_fill(
                      [gdf EXCEPT !.data[col] =
                           [i \in DOMAIN @ |-> IF @[i] = None
                                               THEN Some(stats_context.medians[col])
                                               ELSE @[i]]],
                      stats_context, Tail(na_names))

\* FillMissing.apply_filler
FillMissing_apply_filler(self, gdf, stats_context, cont_names) ==
    LET na_names == na_names_of(gdf, cont_names)
        ind == IF self.add_col
               THEN FillMissing_add_na_indicators(gdf, na_names, cont_names)
               ELSE Ok(gdf)
    IN  IF ind.err # "none" THEN ind
        ELSE LET filled == FillMissing_fill(ind.frame, stats_context, na_names)
             IN  IF filled.err # "none" THEN filled
                 ELSE Ok(set_columns(filled.frame,
                                     suffixed(filled.frame.columns, id_of(self))))

\* FillMissing.op_logic
FillMissing_op_logic(self, gdf, target_columns, stats_context) ==
    IF Len(target_columns) = 0 THEN Ok(gdf)
    ELSE IF "medians" \notin DOMAIN stats_context THEN Raises("KeyError")
    ELSE IF stats_context.medians = EmptyDict THEN Ok(gdf)
    ELSE IF ~has_columns(gdf, target_columns) THEN Raises("KeyError")
    ELSE FillMissing_apply_filler(self, getitem_columns(gdf, target_columns),
                                  stats_context, target_columns)

\* nvtabular.encoder.DLLabelEncoder.transform: the id of a value is its
\* position in the finished table; a value the table lacks, or a missing
\* one, gets the reserved id 0
DLLabelEncoder_transform(encoder, col) ==
    [i \in DOMAIN col |->
       IF col[i] # None /\ \E k \in DOMAIN encoder.cats : encoder.cats[k] = col[i][1]
       THEN Some(CHOOSE k \in DOMAIN encoder.cats : encoder.cats[k] = col[i][1])
       ELSE Some(0)]

\* Categorify.__init__
Categorify_init(columns, preprocessing, replace) ==
    [cls |-> "Categorify", columns |-> columns, preprocessing |-> preprocessing,
     replace |-> replace, cat_names |-> <<>>, embed_sz |-> EmptyDict]

\* the loop of Categorify.op_logic over the target names the chunk has
RECURSIVE Categorify_encode(_, _, _, _, _)
Categorify_encode(self, new_gdf, gdf, stats_context, cat_names) ==
    IF Len(cat_names) = 0 THEN Ok(new_gdf)
    ELSE LET name == Head(cat_names)
             new_col == name \o "_" \o id_of(self)
         IN  IF name \notin Elems(gdf.columns)
             THEN Categorify_encode(self, new_gdf, gdf, stats_context, Tail(cat_names))
             ELSE IF "encoders" \notin DOMAIN stats_context
                     \/ name \notin DOMAIN stats_context.encoders
             THEN Raises("KeyError")
             ELSE Categorify_encode(
                      self,
                      [columns |-> IF new_col \in Elems(new_gdf.columns)
                                   THEN new_gdf.columns
                                   ELSE Append(new_gdf.columns, new_col),
                       data |-> Put(new_gdf.data, new_col,
                                    DLLabelEncoder_transform(stats_context.encoders[name],
                                                             gdf.data[name]))],
                      gdf, stats_context, Tail(cat_names))

\* Categorify.op_logic
Categorify_op_logic(self, gdf, target_columns, stats_context) ==
    IF Len(target_columns) = 0 THEN Ok(gdf)
    ELSE Categorify_encode(self, EmptyFrame, gdf, stats_context, target_columns)

\* nvtabular.groupby.GroupByMomentsCal.merge: for each row of the chunk, in
\* the chunk's row order, the finished aggregates of the row's key
GroupByMomentsCal_merge(cal, gdf) ==
    LET conts == IF cal.cont_col = None THEN <<>> ELSE cal.cont_col[1]
        lookup(i, F(_)) ==
            LET key == gdf.data[cal.col][i]
            IN  IF key = None \/ key[1] \notin DOMAIN cal.table THEN None
                ELSE Some(F(cal.table[key[1]]))
        rows == 1..len_gdf(gdf)
        count_name == cal.col \o "_count"
        sum_name(c) == cal.col \o "_" \o c \o "_sum"
        with_count == IF "count" \in Elems(cal.stats) THEN <<count_name>> ELSE <<>>
        with_sum == IF "sum" \in Elems(cal.stats)
                    THEN [k \in DOMAIN conts |-> sum_name(conts[k])] ELSE <<>>
        names == with_count \o with_sum
    IN  IF cal.col \notin Elems(gdf.columns) THEN Raises("KeyError")
        ELSE Ok([columns |-> names,
                 data |-> [n \in Elems(names) |->
                             IF n = count_name
                             THEN [i \in rows |-> lookup(i, LAMBDA t : t.count)]
                             ELSE LET c == CHOOSE c \in Elems(conts) : sum_name(c) = n
                                  IN  [i \in rows |-> lookup(i, LAMBDA t : t.sum[c])]]])

\* GroupBy.__init__: replace is forced to False
GroupBy_init(cat_names, cont_names, stats, columns, preprocessing, replace) ==
    [cls |-> "GroupBy", columns |-> columns, preprocessing |-> preprocessing,
     replace |-> FALSE, cat_names |-> cat_names, cont_names |-> cont_names,
     stats |-> stats]

\* the loop of GroupBy.op_logic over the finished moments
RECURSIVE GroupBy_merge(_, _, _, _)
GroupBy_merge(new_gdf, gdf, moments, names) ==
    IF Len(names) = 0 THEN Ok(new_gdf)
    ELSE LET tran_gdf == GroupByMomentsCal_merge(moments[Head(names)], gdf)
         IN  IF tran_gdf.err # "none" THEN tran_gdf
             ELSE GroupBy_merge(
                      setitem_pairs(new_gdf, tran_gdf.frame.columns, tran_gdf.frame, 1),
                      gdf, moments, Tail(names))

\* GroupBy.op_logic
GroupBy_op_logic(self, gdf, target_columns, stats_context) ==
    IF self.cat_names = None THEN Raises("ValueError")
    ELSE IF "moments" \notin DOMAIN stats_context THEN Raises("KeyError")
    ELSE GroupBy_merge(EmptyFrame, gdf, stats_context.moments,
                       dict_keys(stats_context.moments))

\* Export.__init__
Export_init(columns, preprocessing, replace) ==
    [cls |-> "Export", columns |-> columns, preprocessing |-> preprocessing,
     replace |-> replace, nfiles |-> 1, shuffle |-> TRUE]

\* Export.op_logic: the chunk is written out and nothing is returned
Export_op_logic(self, gdf, target_columns, stats_context) == ReturnsNone

\* self.op_logic(gdf, target_columns, stats_context=stats_context)
op_logic(self, gdf, target_columns, stats_context) ==
    CASE self.cls = "ZeroFill" -> ZeroFill_op_logic(self, gdf, target_columns, stats_context)
      [] self.cls = "LogOp" -> LogOp_op_logic(self, gdf, target_columns, stats_context)
      [] self.cls = "Normalize" -> Normalize_op_logic(self, gdf, target_columns, stats_context)
      [] self.cls = "FillMissing" -> FillMissing_op_logic(self, gdf, target_columns, stats_context)
      [] self.cls = "Categorify" -> Categorify_op_logic(self, gdf, target_columns, stats_context)
      [] self.cls = "GroupBy" -> GroupBy_op_logic(self, gdf, target_columns, stats_context)
      [] self.cls = "Export" -> Export_op_logic(self, gdf, target_columns, stats_context)

\* TransformOperator.update_columns_ctx, had it written under the group the
\* caller names instead of the operator's default_out
update_columns_ctx_caller_group(self, columns_ctx, input_cols, new_cols, origin_targets, pro) ==
    LET new_key == id_of(self)
        grp == input_cols
        emptied == [columns_ctx EXCEPT ![grp] = Put(@, new_key, <<>>)]
    IN  IF self.replace /\ self.preprocessing
        THEN [emptied EXCEPT ![grp] = Put(@, new_key, origin_targets)]
        ELSE LET listed == [emptied EXCEPT ![grp] = Put(@, new_key, new_cols)]
             IN  IF ~self.preprocessing /\ new_key \notin Elems(listed.final.ctx[grp])
                 THEN [listed EXCEPT !.final.ctx[grp] = Append(@, new_key)]
                 ELSE listed

\* TransformOperator.update_columns_ctx, had it listed the operator in the
\* 'final' group under the group the caller names
update_columns_ctx_final_caller_group(self, columns_ctx, input_cols, new_cols, origin_targets, pro) ==
    LET new_key == id_of(self)
        grp == IF ~pro THEN default_out(self) ELSE input_cols
        emptied == [columns_ctx EXCEPT ![grp] = Put(@, new_key, <<>>)]
    IN  IF self.replace /\ self.preprocessing
        THEN [emptied EXCEPT ![grp] = Put(@, new_key, origin_targets)]
        ELSE LET listed == [emptied EXCEPT ![grp] = Put(@, new_key, new_cols)]
             IN  IF ~self.preprocessing /\ new_key \notin Elems(listed.final.ctx[input_cols])
                 THEN [listed EXCEPT !.final.ctx[input_cols] = Append(@, new_key)]
                 ELSE listed

\* TransformOperator.update_columns_ctx, had it listed a non-preprocessing
\* operator in the 'final' group without looking for its id there
update_columns_ctx_always_listed(self, columns_ctx, input_cols, new_cols, origin_targets, pro) ==
    LET new_key == id_of(self)
        grp == IF ~pro THEN default_out(self) ELSE input_cols
        emptied == [columns_ctx EXCEPT ![grp] = Put(@, new_key, <<>>)]
    IN  IF self.replace /\ self.preprocessing
        THEN [emptied EXCEPT ![grp] = Put(@, new_key, origin_targets)]
        ELSE LET listed == [emptied EXCEPT ![grp] = Put(@, new_key, new_cols)]
             IN  IF ~self.preprocessing
                 THEN [listed EXCEPT !.final.ctx[grp] = Append(@, new_key)]
                 ELSE listed

\* TransformOperator.update_columns_ctx
update_columns_ctx(self, columns_ctx, input_cols, new_cols, origin_targets, pro) ==
    LET new_key == id_of(self)
        grp == IF ~pro THEN default_out(self) ELSE input_cols
        emptied == [columns_ctx EXCEPT ![grp] = Put(@, new_key, <<>>)]
    IN  IF self.replace /\ self.preprocessing
        THEN [emptied EXCEPT ![grp] = Put(@, new_key, origin_targets)]
        ELSE LET listed == [emptied EXCEPT ![grp] = Put(@, new_key, new_cols)]
             IN  IF ~self.preprocessing /\ new_key \notin Elems(listed.final.ctx[grp])
                 THEN [listed EXCEPT !.final.ctx[grp] = Append(@, new_key)]
                 ELSE listed

\* TransformOperator.assemble_new_df
assemble_new_df(self, origin_gdf, new_gdf, target_columns) ==
    IF ~truthy_frame(new_gdf) THEN [err |-> "none", frame |-> origin_gdf]
    ELSE IF self.replace /\ self.preprocessing /\ Len(target_columns) > 0
    THEN setitem_frame(origin_gdf, target_columns, new_gdf)
    ELSE [err |-> "none", frame |-> concat_columns(origin_gdf, new_gdf)]

\* TransformOperator.apply_op. The result names what the call leaves behind:
\* the column context, the frame returned, the exception raised, and the
\* target columns and op_logic result it went through.
TransformOperator_apply_op(self, gdf, columns_ctx, input_cols, target_cols, stats_context) ==
    LET cols == get_columns(self.columns, columns_ctx, input_cols, target_cols)
        new_gdf == op_logic(self, gdf, cols.val, stats_context)
        ctx == update_columns_ctx(self, columns_ctx, input_cols,
                                  new_gdf.frame.columns, cols.val, FALSE)
        out == assemble_new_df(self, gdf, new_gdf.frame, cols.val)
        fail(e, logic) == [columns_ctx |-> columns_ctx, out |-> EmptyFrame, err |-> e,
                           target_columns |-> cols.val, new_gdf |-> logic]
    IN  IF cols.err # "none" THEN fail(cols.err, ReturnsNone)
        ELSE IF new_gdf.err # "none" THEN fail(new_gdf.err, new_gdf)
        ELSE IF new_gdf.is_none THEN fail("AttributeError", new_gdf)
        ELSE [columns_ctx |-> ctx, out |-> out.frame, err |-> out.err,
              target_columns |-> cols.val, new_gdf |-> new_gdf]

\* ------------------------------------------------------------------- state
VARIABLES
    op,        \* the statistics operator object under the driver's hand
    engine,    \* what the data engine and the host arithmetic do (see StatInit)
    fed,       \* the chunks given to apply_op since construction or clear()
    finished,  \* read_fin has completed since construction or clear()
    err,       \* the exception the last call raised, "none" if it returned
    lastAct,   \* the last call made: "init", "apply_op", "read_fin", "clear",
               \* "transform" (a fresh chunk) or "chain" (the previous result)
    columns_ctx,    \* the column context the driver owns
    stats_context,  \* the registry of finished statistics the driver owns
    call,      \* the last TransformOperator.apply_op call: its arguments, the
               \* target columns it resolved and what op_logic handed back
    gdf_out    \* the frame the last TransformOperator.apply_op returned

vars == <<op, engine, fed, finished, err, lastAct, columns_ctx, stats_context,
          call, gdf_out>>

NoCall == [input_cols |-> "", target_cols |-> <<>>, gdf |-> EmptyFrame,
           target_columns |-> <<>>, new_gdf |-> ReturnsNone]

DefaultEngine ==
    [dtype |-> "int64", nan_as_null |-> TRUE, float_div |-> "python", getitem |-> "iloc"]

\* the constructor arguments tried for Median and GroupByMoments
Fills == {None, Some(0), Some(5)}

CatNames == {None, Some(<<"x">>)}

ContNames == {None, Some(<<"x">>)}

Stats == {<<"count">>, <<"sum">>, <<"count", "sum">>, <<"count", "mean">>}

\* A freshly constructed statistics operator of one of the classes, and an
\* engine: the dtype of the column (MinMax branches on it), whether the engine
\* stores NaN as null, what a float division by zero does, how an integer key
\* indexes a series.
StatInit ==
    /\ \/ /\ op = MinMax_init
          /\ \E dt \in {"int64", "object"}, nn \in BOOLEAN :
                engine = [DefaultEngine EXCEPT !.dtype = dt, !.nan_as_null = nn]
       \/ /\ op = Moments_init
          /\ \E fd \in {"python", "numpy"} :
                engine = [DefaultEngine EXCEPT !.float_div = fd]
       \/ /\ \E fill \in Fills : op = Median_init(fill)
          /\ \E gi \in {"iloc", "loc"} :
                engine = [DefaultEngine EXCEPT !.getitem = gi]
       \/ /\ \E uf \in BOOLEAN : op = Encoder_init(uf, 0)
          /\ engine = DefaultEngine
       \/ /\ \E cat \in CatNames, cont \in ContNames, st \in Stats :
                op = GroupByMoments_init(cat, cont, st)
          /\ engine = DefaultEngine
    /\ fed = <<>>
    /\ finished = FALSE
    /\ err = "none"
    /\ lastAct = "init"
    /\ columns_ctx = StatCtx
    /\ stats_context = EmptyDict
    /\ call = NoCall
    /\ gdf_out = EmptyFrame

RowsFed == len_gdf(concat_frames(fed))

\* the driver feeds one more chunk to the operator's accumulate step
ApplyOp ==
    /\ err = "none"
    /\ Len(fed) < MaxChunks
    /\ \E gdf \in Frames(MaxRows - RowsFed) :
          LET r == apply_op(op, gdf, columns_ctx, "all", <<"base">>, engine)
          IN  /\ op' = r.self
              /\ err' = r.err
              /\ fed' = Append(fed, gdf)
    /\ lastAct' = "apply_op"
    /\ UNCHANGED <<engine, finished, columns_ctx, stats_context, call, gdf_out>>

\* the driver calls the operator's finalize step
ReadFin ==
    /\ err = "none"
    /\ LET r == read_fin(op, engine)
       IN  /\ op' = r.self
           /\ err' = r.err
           /\ finished' = (finished \/ r.err = "none")
    /\ lastAct' = "read_fin"
    /\ UNCHANGED <<engine, fed, columns_ctx, stats_context, call, gdf_out>>

\* the driver resets the operator
Clear ==
    /\ lastAct # "init"
    /\ lastAct # "clear"
    /\ op' = clear(op)
    /\ fed' = <<>>
    /\ finished' = FALSE
    /\ err' = "none"
    /\ lastAct' = "clear"
    /\ UNCHANGED <<engine, columns_ctx, stats_context, call, gdf_out>>

StatNext == ApplyOp \/ ReadFin \/ Clear

SpecStat == StatInit /\ [][StatNext]_vars

\* ------------------------------------------- the transform pass of a driver
\* the column context of a dataset with a continuous column x and a
\* categorical column c, before any operator ran
Ctx0 ==
    [all |-> [base |-> <<"x", "c">>],
     continuous |-> [base |-> <<"x">>],
     categorical |-> [base |-> <<"c">>],
     final |-> [ctx |-> [all |-> <<>>, continuous |-> <<>>, categorical |-> <<>>]]]

\* the chunks of at most n rows: x holds a missing, a negative or a positive
\* value, c holds the row's number
CtxFrames(n) ==
    {[columns |-> <<"x", "c">>,
      data |-> [x |-> xs, c |-> [i \in DOMAIN xs |-> Some(i)]]] :
        xs \in UNION {[1..k -> {None, Some(-1), Some(2)}] : k \in 0..n}}

\* the rows the statistics were collected from
TrainFrames ==
    {[columns |-> <<"x", "c">>,
      data |-> [x |-> xs, c |-> [i \in DOMAIN xs |-> Some(1)]]] :
        xs \in {<<Some(-1), Some(1), Some(3)>>, <<Some(2), Some(2)>>}}

\* the registry before any statistic is finished
EmptyStats ==
    [means |-> EmptyDict, stds |-> EmptyDict, vars |-> EmptyDict,
     medians |-> EmptyDict, encoders |-> EmptyDict, moments |-> EmptyDict,
     categories |-> EmptyDict]

\* the registry after Moments, Median, Encoder and GroupByMoments went over
\* the training rows and were finalized
FinishedStats(train) ==
    LET fit(self) == read_fin(apply_op(self, train, Ctx0, ALL, <<"base">>,
                                       DefaultEngine).self, DefaultEngine).self
        mo == read_fin(apply_op(Moments_init, train, Ctx0, CONT, <<"base">>,
                                DefaultEngine).self, DefaultEngine).self
        me == read_fin(apply_op(Median_init(None), train, Ctx0, CONT, <<"base">>,
                                DefaultEngine).self, DefaultEngine).self
        en == read_fin(apply_op(Encoder_init(FALSE, 0), train, Ctx0, CAT, <<"base">>,
                                DefaultEngine).self, DefaultEngine).self
        gb == fit(GroupByMoments_init(Some(<<"c">>), Some(<<"x">>), <<"count", "sum">>))
    IN  [means |-> mo.means, stds |-> mo.stds, vars |-> mo.varis,
         medians |-> me.medians, encoders |-> en.encoders,
         moments |-> gb.moments, categories |-> gb.categories]

\* the operators a workflow is configured with
TransformOps ==
    {TransformOperator_init("ZeroFill", None, pre, rep) : pre \in BOOLEAN, rep \in BOOLEAN}
    \cup {TransformOperator_init("LogOp", None, TRUE, TRUE)}
    \cup {TransformOperator_init("Normalize", None, TRUE, rep) : rep \in BOOLEAN}
    \cup {FillMissing_init("median", 0, add, None, TRUE, TRUE) : add \in BOOLEAN}
    \cup {FillMissing_init("constant", 0, FALSE, None, TRUE, TRUE)}
    \cup {Categorify_init(None, TRUE, TRUE)}
    \cup {GroupBy_init(cat, Some(<<"x">>), <<"count", "sum">>, None, TRUE, FALSE) :
            cat \in {None, Some(<<"c">>)}}
    \cup {Export_init(None, FALSE, FALSE)}

\* The driver has read a chunk; fed holds it, and after it the frame given to
\* each TransformOperator.apply_op call.
CtxInit ==
    /\ op = Export_init(None, FALSE, FALSE)
    /\ engine = DefaultEngine
    /\ \E gdf \in CtxFrames(MaxFrameRows) : fed = <<gdf>>
    /\ \E fin \in BOOLEAN, train \in TrainFrames :
          /\ finished = fin
          /\ stats_context = IF fin THEN FinishedStats(train) ELSE EmptyStats
    /\ err = "none"
    /\ lastAct = "init"
    /\ columns_ctx = Ctx0
    /\ call = NoCall
    /\ gdf_out = EmptyFrame

\* one TransformOperator.apply_op call by the driver
Apply(self, gdf, input_cols, target_cols) ==
    LET r == TransformOperator_apply_op(self, gdf, columns_ctx, input_cols,
                                        target_cols, stats_context)
    IN  /\ op' = self
        /\ call' = [input_cols |-> input_cols, target_cols |-> target_cols,
                    gdf |-> gdf, target_columns |-> r.target_columns,
                    new_gdf |-> r.new_gdf]
        /\ columns_ctx' = r.columns_ctx
        /\ gdf_out' = r.out
        /\ err' = r.err
        /\ fed' = Append(fed, gdf)
        /\ UNCHANGED <<engine, finished, stats_context>>

\* the driver gives the chunk it read to an operator, on the dataset's columns
Transform ==
    /\ err = "none"
    /\ Len(fed) <= MaxApplies
    /\ \E self \in TransformOps, input_cols \in {CONT, CAT, ALL} :
            Apply(self, fed[1], input_cols, <<"base">>)
    /\ lastAct' = "transform"

\* the driver gives the frame the previous operator returned to the next
\* operator, on the columns the previous operator recorded
Chain ==
    /\ err = "none"
    /\ lastAct \in {"transform", "chain"}
    /\ Len(fed) <= MaxApplies
    /\ \E self \in TransformOps :
            Apply(self, gdf_out, default_out(op), <<id_of(op)>>)
    /\ lastAct' = "chain"

CtxNext == Transform \/ Chain

SpecCtx == CtxInit /\ [][CtxNext]_vars

\* ------------------------------------------- Operator.get_columns on its own
\* the explicit column lists an operator is constructed with
ColumnLists == {None, Some(<<>>), Some(<<"x">>), Some(<<"c", "x">>)}

\* the column contexts get_columns is handed: the dataset's, the one a
\* non-replacing ZeroFill left behind, the statistics pass's, and one that has
\* the continuous group only, after LogOp ran
ColsCtxs ==
    {Ctx0,
     [Ctx0 EXCEPT !.all = Put(@, "ZeroFill", <<"x_ZeroFill", "c_ZeroFill">>)],
     StatCtx,
     [continuous |-> [base |-> <<"x">>, LogOp |-> <<"x">>]]}

\* the group keys and target keys a caller names
ColsGroups == {ALL, CONT, CAT}

TargetKeys == {"base", "ZeroFill", "LogOp"}

TargetLists == UNION {[1..k -> TargetKeys] : k \in 0..MaxTargets}

\* an operator constructed with or without a column list, and a context
ColsInit ==
    /\ \E columns \in ColumnLists : op = TransformOperator_init("ZeroFill", columns, TRUE, TRUE)
    /\ columns_ctx \in ColsCtxs
    /\ engine = DefaultEngine
    /\ fed = <<>>
    /\ finished = FALSE
    /\ err = "none"
    /\ lastAct = "init"
    /\ stats_context = EmptyStats
    /\ call = NoCall
    /\ gdf_out = EmptyFrame

\* one Operator.get_columns call; call.target_columns is what it returned
GetColumns ==
    /\ \E cols_grp \in ColsGroups, target_cols \in TargetLists :
          LET r == get_columns(op.columns, columns_ctx, cols_grp, target_cols)
          IN  /\ call' = [NoCall EXCEPT !.input_cols = cols_grp,
                                        !.target_cols = target_cols,
                                        !.target_columns = r.val]
              /\ err' = r.err
    /\ lastAct' = "get_columns"
    /\ UNCHANGED <<op, engine, fed, finished, columns_ctx, stats_context, gdf_out>>

ColsNext == GetColumns

SpecCols == ColsInit /\ [][ColsNext]_vars

\* ------------------------- a statistics operator on a two-column dataset
\* a freshly constructed MinMax, Moments, Median or GroupByMoments (grouping
\* on c, summing x) and the column context of the dataset with the columns x
\* and c
PerColInit ==
    /\ op \in {MinMax_init, Moments_init, Median_init(None),
               GroupByMoments_init(Some(<<"c">>), Some(<<"x">>), <<"count", "sum">>)}
    /\ engine = DefaultEngine
    /\ fed = <<>>
    /\ finished = FALSE
    /\ err = "none"
    /\ lastAct = "init"
    /\ columns_ctx = Ctx0
    /\ stats_context = EmptyStats
    /\ call = NoCall
    /\ gdf_out = EmptyFrame

\* the driver feeds a chunk to the operator's accumulate step, on the columns
\* of one group; call.target_columns is what get_columns resolved
ApplyCols ==
    /\ err = "none"
    /\ Len(fed) < MaxColCalls
    /\ \E gdf \in CtxFrames(MaxFrameRows), input_cols \in {CONT, CAT, ALL} :
          LET cols == get_columns(op.columns, columns_ctx, input_cols, <<"base">>)
              r == apply_op(op, gdf, columns_ctx, input_cols, <<"base">>, engine)
          IN  /\ op' = r.self
              /\ err' = r.err
              /\ fed' = Append(fed, gdf)
              /\ call' = [NoCall EXCEPT !.input_cols = input_cols,
                                        !.target_cols = <<"base">>,
                                        !.gdf = gdf,
                                        !.target_columns = cols.val]
    /\ lastAct' = "apply_op"
    /\ UNCHANGED <<engine, finished, columns_ctx, stats_context, gdf_out>>

PerColNext == ApplyCols

SpecPerCol == PerColInit /\ [][PerColNext]_vars

\* ------------------ a statistics operator called without a target_cols
\* the driver feeds a chunk to the operator's accumulate step and leaves
\* target_cols to its default; call.target_columns is what get_columns
\* resolved
ApplyDefault ==
    /\ err = "none"
    /\ Len(fed) < MaxColCalls
    /\ \E gdf \in CtxFrames(MaxFrameRows), input_cols \in {CONT, CAT, ALL} :
          LET target_cols == StatOperator_default_target_cols
              cols == get_columns(op.columns, columns_ctx, input_cols, target_cols)
              r == apply_op(op, gdf, columns_ctx, input_cols, target_cols, engine)
          IN  /\ op' = r.self
              /\ err' = r.err
              /\ fed' = Append(fed, gdf)
              /\ call' = [NoCall EXCEPT !.input_cols = input_cols,
                                        !.target_cols = target_cols,
                                        !.gdf = gdf,
                                        !.target_columns = cols.val]
    /\ lastAct' = "apply_op"
    /\ UNCHANGED <<engine, finished, columns_ctx, stats_context, gdf_out>>

DefaultNext == ApplyDefault

SpecDefault == PerColInit /\ [][DefaultNext]_vars

\* ---------------------------------------------- what the claims talk about
\* the dataset fed so far, as one chunk
Dataset == concat_frames(fed)

\* the operator after the whole dataset is fed to a cleared copy of it as a
\* single chunk and finalized
single_chunk(self, chunks, eng) ==
    LET a == apply_op(clear(self), concat_frames(chunks), StatCtx, "all", <<"base">>, eng)
    IN  IF a.err # "none" THEN a ELSE read_fin(a.self, eng)

NoEmptyChunk == \A i \in DOMAIN fed : len_gdf(fed[i]) > 0

OnlyEmptyChunks == \A i \in DOMAIN fed : len_gdf(fed[i]) = 0

AllMissing(c) ==
    \A i \in DOMAIN fed : \A j \in DOMAIN fed[i].data[c] : fed[i].data[c][j] = None

\* C2: however the rows are split into (non-empty) chunks, accumulating and
\* finalizing MinMax succeeds whenever it succeeds on the dataset as a single
\* chunk, and yields the same mins and maxs: the minimum and the maximum of the
\* column's non-missing values.
C2_MinMaxSplitIndependent ==
    (op.cls = "MinMax" /\ lastAct \in {"apply_op", "read_fin"}
       /\ Len(fed) > 0 /\ NoEmptyChunk
       /\ single_chunk(op, fed, engine).err = "none")
    => /\ err = "none"
       /\ lastAct = "read_fin" =>
            /\ op.mins = single_chunk(op, fed, engine).self.mins
            /\ op.maxs = single_chunk(op, fed, engine).self.maxs
            /\ \A c \in Cols :
                 Len(valid(Dataset.data[c])) > 0 =>
                    /\ c \in DOMAIN op.mins /\ c \in DOMAIN op.maxs
                    /\ op.mins[c] = Some(SeqMin(valid(Dataset.data[c])))
                    /\ op.maxs[c] = Some(SeqMax(valid(Dataset.data[c])))

\* C3: however the rows are split into non-empty chunks, the count, mean and
\* variance Moments has after read_fin are those of the dataset fed as a single
\* chunk.
C3_MomentsSplitIndependent ==
    (op.cls = "Moments" /\ lastAct = "read_fin" /\ Len(fed) > 0 /\ NoEmptyChunk)
    => /\ err = "none"
       /\ op.counts = single_chunk(op, fed, engine).self.counts
       /\ op.means = single_chunk(op, fed, engine).self.means
       /\ op.varis = single_chunk(op, fed, engine).self.varis

\* the representative the claim gives a chunk's column
claimed_rep(s, fill) ==
    IF fill # None THEN fill[1]
    ELSE IF Len(valid(s)) <= 1 THEN 0
    ELSE Sorted(valid(s))[(Len(valid(s)) \div 2) + 1]

claimed_median(c) ==
    LET reps == Sorted([i \in DOMAIN fed |-> claimed_rep(fed[i].data[c], op.fill)])
    IN  reps[(Len(reps) \div 2) + 1]

OneToFive ==
    [columns |-> ColOrder,
     data |-> [c \in Cols |-> <<Some(1), Some(2), Some(3), Some(4), Some(5)>>]]

\* C4: on an engine that indexes by position, the finished median is the middle
\* of the sorted per-chunk representatives, a chunk's representative being the
\* configured fill value if one is configured (0 included), else 0.0 for a
\* chunk with at most one non-missing value, else the middle of its sorted
\* non-missing values; a single chunk [1,2,3,4,5] yields 3.
C4_MedianOfRepresentatives ==
    /\ single_chunk(Median_init(None), <<OneToFive>>, DefaultEngine).self.medians
         = [c \in Cols |-> 3]
    /\ (op.cls = "Median" /\ engine.getitem = "iloc"
          /\ lastAct = "read_fin" /\ Len(fed) > 0)
       => /\ err = "none"
          /\ \A c \in Cols : c \in DOMAIN op.medians /\ op.medians[c] = claimed_median(c)

\* the last step was a TransformOperator.apply_op call
Transformed == lastAct \in {"transform", "chain"}

Groups == {CONT, CAT, ALL}

\* the list an operator's call records: its targets when it replaces them in a
\* preprocessing step, else the columns op_logic produced
recorded_list(self, c) ==
    IF self.replace /\ self.preprocessing THEN c.target_columns
    ELSE c.new_gdf.frame.columns

\* C1 as claimed: an apply_op call on a chunk with rows leaves every recorded
\* entry of the column context as it was: it only adds entries.
C1_EntryImmutable ==
    [][(Transformed' /\ len_gdf(call'.gdf) > 0) =>
          \A grp \in Groups : \A k \in DOMAIN columns_ctx[grp] :
             /\ k \in DOMAIN columns_ctx'[grp]
             /\ columns_ctx'[grp][k] = columns_ctx[grp][k]]_vars

\* C1 as amended: an apply_op call leaves every entry recorded under another
\* operator id or another group as it was, and a call that returns normally
\* sets the entry of its own id, in its default_out group, to the list of the
\* current call, whether or not the id had an entry.
C1_OwnEntryRewritten ==
    [][Transformed' =>
          /\ \A grp \in Groups : \A k \in DOMAIN columns_ctx[grp] :
                (grp # default_out(op') \/ k # id_of(op')) =>
                   /\ k \in DOMAIN columns_ctx'[grp]
                   /\ columns_ctx'[grp][k] = columns_ctx[grp][k]
          /\ err' = "none" =>
                /\ id_of(op') \in DOMAIN columns_ctx'[default_out(op')]
                /\ columns_ctx'[default_out(op')][id_of(op')] = recorded_list(op', call')
          /\ columns_ctx' # columns_ctx => ~call'.new_gdf.is_none]_vars

\* two calls returned, the context holds the entry of the last operator and,
\* in the same group, the entry an earlier operator recorded
C1_Witness ==
    /\ Transformed /\ err = "none" /\ Len(fed) = 3
    /\ id_of(op) \in DOMAIN columns_ctx[default_out(op)]
    /\ Len(columns_ctx[default_out(op)][id_of(op)]) > 0
    /\ \E k \in DOMAIN columns_ctx[default_out(op)] :
          k \notin {"base", id_of(op)} /\ Len(columns_ctx[default_out(op)][k]) > 0

\* the transform operators that read a finished statistic
StatDependent == {"Normalize", "FillMissing", "Categorify", "GroupBy"}

\* the last call was made with targets while no statistic was finished
UnfinishedCall == Transformed /\ ~finished /\ Len(call.target_columns) > 0

\* C7 as claimed: a statistics-dependent transform operator applied to a
\* chunk with rows, with targets, while its statistic is unfinished reports an
\* error.
C7_UnfinishedIsError ==
    (UnfinishedCall /\ op.cls \in StatDependent /\ len_gdf(call.gdf) > 0)
    => err # "none"

\* C7 as amended: with targets and its statistic unfinished, Normalize fails
\* (its op_logic returns nothing) and Categorify fails on a target the chunk
\* has, both leaving the column context as it was; FillMissing's op_logic
\* hands the chunk back as its result and GroupBy with cat_names returns the
\* chunk as it was, recording an empty column list, neither with an error of
\* its own.
C7_UnfinishedOutcomes ==
    [][UnfinishedCall' =>
          /\ op'.cls = "Normalize" =>
                /\ err' = "AttributeError" /\ call'.new_gdf.is_none
                /\ columns_ctx' = columns_ctx
          /\ (op'.cls = "Categorify"
                 /\ \E n \in Elems(call'.target_columns) : n \in Elems(call'.gdf.columns)) =>
                /\ err' = "KeyError"
                /\ columns_ctx' = columns_ctx
          /\ op'.cls = "FillMissing" =>
                /\ call'.new_gdf = Ok(call'.gdf)
                /\ err' \in {"none", "ValueError"}
                /\ err' = "none" => gdf_out' = call'.gdf
          /\ (op'.cls = "GroupBy" /\ op'.cat_names # None) =>
                /\ err' = "none"
                /\ gdf_out' = call'.gdf
                /\ columns_ctx'[CAT]["GroupBy"] = <<>>]_vars

\* GroupBy, its moments unfinished, has returned a chunk of one row as it was
C7_Witness ==
    /\ UnfinishedCall /\ op.cls = "GroupBy" /\ op.cat_names # None
    /\ err = "none" /\ len_gdf(call.gdf) > 0 /\ gdf_out = call.gdf

\* the finished values an operator exposes through stats_collected
finished_values(self) ==
    CASE self.cls = "MinMax" -> <<self.mins, self.maxs>>
      [] self.cls = "Moments" -> <<self.means, self.stds, self.varis>>
      [] self.cls = "Median" -> <<self.medians>>
      [] OTHER -> <<>>

\* C5 as claimed: once read_fin has run on accumulated chunks, the finished
\* values of MinMax, Moments and Median are read-only: a later apply_op that
\* returns normally changes none of them.
C5_FinishedReadOnly ==
    [][(finished /\ Len(fed) > 0 /\ NoEmptyChunk' /\ lastAct' = "apply_op" /\ err' = "none")
         => finished_values(op') = finished_values(op)]_vars

\* C5 as amended: once read_fin has run, a later apply_op changes neither mins
\* and maxs of MinMax, nor medians of Median, nor the stds of Moments (its means
\* and vars are the running aggregate, which apply_op overwrites).
C5_ApplyKeepsFinished ==
    [][(finished /\ lastAct' = "apply_op") =>
          CASE op.cls = "MinMax" -> op'.mins = op.mins /\ op'.maxs = op.maxs
            [] op.cls = "Median" -> op'.medians = op.medians
            [] op.cls = "Moments" ->
                 \A c \in DOMAIN op.stds : c \in DOMAIN op'.stds /\ op'.stds[c] = op.stds[c]
            [] OTHER -> TRUE]_vars

\* an apply_op has been made on a finalized MinMax that holds finished values
C5_Witness ==
    /\ op.cls = "MinMax" /\ finished /\ lastAct = "apply_op" /\ err = "none"
    /\ "x" \in DOMAIN op.mins
    /\ Len(op.batch_mins["x"]) > 1

\* every map of finished values is empty
finished_empty(self) ==
    CASE self.cls = "MinMax" -> self.mins = EmptyDict /\ self.maxs = EmptyDict
      [] self.cls = "Moments" ->
           self.means = EmptyDict /\ self.stds = EmptyDict /\ self.varis = EmptyDict
      [] self.cls = "Median" -> self.medians = EmptyDict
      [] self.cls = "Encoder" -> self.categories = EmptyDict
      [] self.cls = "GroupByMoments" -> self.categories = EmptyDict

\* C6 as claimed: read_fin before any apply_op is reported as an error.
C6_EarlyFinIsError ==
    (lastAct = "read_fin" /\ fed = <<>>) => err # "none"

\* C6 as amended: read_fin before any apply_op returns without an error and
\* leaves every map of finished statistics empty.
C6_EarlyFinIsSilent ==
    (lastAct = "read_fin" /\ fed = <<>>) => (err = "none" /\ finished_empty(op))

\* read_fin has been called on a Moments operator that was fed nothing
C6_Witness ==
    op.cls = "Moments" /\ lastAct = "read_fin" /\ fed = <<>> /\ finished

\* C8: when Moments is fed only chunks of zero rows, nothing raises and after
\* read_fin the column has no entry in means, stds and vars.
C8_ZeroCountAbsent ==
    (op.cls = "Moments" /\ lastAct \in {"apply_op", "read_fin"}
       /\ Len(fed) > 0 /\ OnlyEmptyChunks)
    => /\ err = "none"
       /\ lastAct = "read_fin" =>
            \A c \in Cols : /\ c \notin DOMAIN op.means
                            /\ c \notin DOMAIN op.stds
                            /\ c \notin DOMAIN op.varis

\* C9: a column missing in every row of every chunk fed to MinMax raises no
\* error and has no entry in mins and maxs after read_fin.
C9_AllMissingAbsent ==
    \A c \in Cols :
       (op.cls = "MinMax" /\ lastAct \in {"apply_op", "read_fin"}
          /\ Len(fed) > 0 /\ NoEmptyChunk /\ AllMissing(c))
       => /\ err = "none"
          /\ lastAct = "read_fin" => (c \notin DOMAIN op.mins /\ c \notin DOMAIN op.maxs)

\* the configurations the claim says must fail validation
invalid_config(self) ==
    \/ self.cat_names = None
    \/ \E i \in DOMAIN self.stats : self.stats[i] \notin {"count", "sum"}
    \/ self.cont_names = None /\ \A i \in DOMAIN self.stats : self.stats[i] # "count"

C11_ExplicitListWins ==
    (lastAct = "get_columns" /\ op.columns # None)
        => /\ err = "none"
           /\ call.target_columns = op.columns[1]

\* ---------------------------------------------------------------------- C12
\* the lists of the first k targets that are keys of the group, one after the
\* other
RECURSIVE claimed_columns(_, _, _)
claimed_columns(grp, targets, k) ==
    IF k = 0 THEN <<>>
    ELSE claimed_columns(grp, targets, k - 1)
         \o (IF targets[k] \in DOMAIN grp THEN grp[targets[k]] ELSE <<>>)

\* C12: for an operator constructed without a column list, get_columns(ctx,
\* group, targets) returns without error the concatenation, in the order of
\* targets, of ctx[group][t] for the targets t that are keys of ctx[group],
\* absent targets skipped and duplicates kept, and leaves the context as it was.
C12_ConcatenatesPresentTargets ==
    [][(lastAct' = "get_columns" /\ op'.columns = None
            /\ call'.input_cols \in DOMAIN columns_ctx)
          => /\ err' = "none"
             /\ call'.target_columns =
                   claimed_columns(columns_ctx[call'.input_cols], call'.target_cols,
                                   Len(call'.target_cols))
             /\ columns_ctx' = columns_ctx]_vars

\* a call that met an absent target key and took the same list twice
C12_Witness ==
    /\ lastAct = "get_columns"
    /\ op.columns = None
    /\ call.input_cols = CONT
    /\ call.target_cols = <<"base", "ZeroFill", "LogOp">>
    /\ CONT \in DOMAIN columns_ctx
    /\ "LogOp" \in DOMAIN columns_ctx[CONT]
    /\ "ZeroFill" \notin DOMAIN columns_ctx[CONT]
    /\ call.target_columns = <<"x", "x">>

\* ---------------------------------------------------------------------- C13
\* a Normalize call on target columns that all have a finished std
NormalizeCall ==
    /\ Transformed
    /\ op.cls = "Normalize"
    /\ finished
    /\ Len(call.target_columns) > 0
    /\ \A n \in Elems(call.target_columns) :
          n \in DOMAIN stats_context.stds /\ n \in DOMAIN stats_context.means

\* C13: for any chunk and finished Moments statistics, Normalize's op_logic
\* produces the column '<name>_Normalize' for a target column exactly when
\* the column's finished std is greater than 0, its present cells holding
\* (x - mean) / std (that is, out * std + mean = x); a column whose std is 0
\* produces no column, so nothing is divided by zero.
C13_NormalizeSkipsZeroStd ==
    NormalizeCall =>
        LET out == call.new_gdf.frame
            stds == stats_context.stds
            means == stats_context.means
        IN  /\ call.new_gdf.err = "none"
            /\ ~call.new_gdf.is_none
            /\ Elems(out.columns) =
                  {n \o "_Normalize" : n \in {m \in Elems(call.target_columns) :
                                                 float_gt0(stds[m])}}
            /\ \A n \in Elems(call.target_columns) :
                  float_gt0(stds[n]) =>
                     /\ stds[n] # R(0)
                     /\ DOMAIN out.data[n \o "_Normalize"] = DOMAIN call.gdf.data[n]
                     /\ \A i \in DOMAIN call.gdf.data[n] :
                           LET x == call.gdf.data[n][i]
                               y == out.data[n \o "_Normalize"][i]
                           IN  IF x = None THEN y = None
                               ELSE Len(x) = 1 =>
                                      FAdd(FMul(y, stds[n]), means[n]) = to_float(x)

\* a chunk whose x is -1, normalized with mean 1 and std 2 to -1
C13_Witness ==
    /\ NormalizeCall
    /\ call.target_columns = <<"x">>
    /\ stats_context.stds["x"] = R(2)
    /\ call.gdf.data["x"] = <<Some(-1)>>
    /\ call.new_gdf.frame.columns = <<"x_Normalize">>
    /\ call.new_gdf.frame.data["x_Normalize"] = <<R(-1)>>

\* ---------------------------------------------------------------------- C14
\* a FillMissing call on a chunk with rows, on target columns that all have a
\* finished median
FillMissingCall ==
    /\ Transformed
    /\ op.cls = "FillMissing"
    /\ finished
    /\ len_gdf(call.gdf) > 0
    /\ Len(call.target_columns) > 0
    /\ \A n \in Elems(call.target_columns) :
          n \in DOMAIN stats_context.medians /\ n \in Elems(call.gdf.columns)

\* column c of the frame is the "was missing" indicator of the cells col
is_indicator(frame, c, col) ==
    /\ DOMAIN frame.data[c] = DOMAIN col
    /\ \A i \in DOMAIN col :
          frame.data[c][i] = (IF col[i] = None THEN Some(1) ELSE Some(0))

\* C14: with add_col enabled, FillMissing applied to a chunk completes and the
\* chunk it returns has, next to the input's columns, an indicator column for
\* each target column that had a missing value, true exactly on the rows that
\* were missing, and none for a target column without missing values.
C14_IndicatorsAdded ==
    (FillMissingCall /\ op.add_col) =>
        /\ err = "none"
        /\ \A n \in Elems(call.target_columns) :
              (isna_sum(call.gdf.data[n]) > 0)
                 <=> \E c \in Elems(gdf_out.columns) \ Elems(call.gdf.columns) :
                        is_indicator(gdf_out, c, call.gdf.data[n])

\* ---------------------------------------------------------------------- C15
\* the value the operator's fill strategy chooses for column n
chosen_fill(self, n) ==
    IF self.fill_strategy = "median" THEN stats_context.medians[n] ELSE self.fill_val

\* C15: FillMissing (without indicator columns) replaces every missing value
\* of a target column by the value its fill strategy chooses, the finished
\* median with MEDIAN and fill_val with CONSTANT, and leaves the other values
\* as they are.
C15_FillsByStrategy ==
    (FillMissingCall /\ ~op.add_col) =>
        /\ call.new_gdf.err = "none"
        /\ \A n \in Elems(call.target_columns) :
              /\ (n \o "_FillMissing") \in Elems(call.new_gdf.frame.columns)
              /\ \A i \in DOMAIN call.gdf.data[n] :
                    call.new_gdf.frame.data[n \o "_FillMissing"][i] =
                       (IF call.gdf.data[n][i] = None
                        THEN Some(chosen_fill(op, n))
                        ELSE call.gdf.data[n][i])

\* ---------------------------------------------------------------------- C16
\* a completed call, on non-empty target columns, of an operator whose
\* op_logic names the columns it creates (GroupBy takes the names of the
\* frames GroupByMomentsCal.merge returns)
NamingCall ==
    /\ Transformed
    /\ err = "none"
    /\ Len(call.target_columns) > 0
    /\ op.cls # "GroupBy"

\* the entry the call left in the column context
own_entry == columns_ctx[default_out(op)][id_of(op)]

\* a replacing call: the returned chunk has exactly the input's column names
\* and the entry is the original target names
ReplacedInPlace ==
    /\ gdf_out.columns = call.gdf.columns
    /\ own_entry = call.target_columns

\* a non-replacing call: the created columns are named '<column>_<id>', come
\* after the unchanged originals, and are what the entry records
SuffixedAdded ==
    LET created == call.new_gdf.frame.columns
    IN  /\ \A k \in DOMAIN created :
              \E t \in Elems(call.target_columns) : created[k] = t \o "_" \o id_of(op)
        /\ gdf_out.columns = call.gdf.columns \o created
        /\ \A n \in Elems(call.gdf.columns) : gdf_out.data[n] = call.gdf.data[n]
        /\ own_entry = created

\* C16: a Transform Operator with replace=True and preprocessing=True applied
\* to non-empty target columns returns a chunk with exactly the input chunk's
\* column names and records the original target names; with replace=False
\* every column it creates is named '<column>_<OperatorId>', is added next to
\* the unchanged originals, and those names are what the entry records.
C16_NamingConvention ==
    NamingCall =>
        /\ (op.replace /\ op.preprocessing) => ReplacedInPlace
        /\ ~op.replace => SuffixedAdded

\* ---------------------------------------------------------------------- C17
\* C17: applying Export to a chunk through apply_op completes without error
\* and returns a chunk with the same columns and values as its input.
C17_ExportReturnsChunk ==
    (Transformed /\ op.cls = "Export") =>
        /\ err = "none"
        /\ gdf_out = call.gdf

\* ---------------------------------------------------------------------- C18
\* the operator as its constructor builds it from the same arguments
fresh_operator(self) ==
    CASE self.cls = "MinMax" -> MinMax_init
      [] self.cls = "Moments" -> Moments_init
      [] self.cls = "Median" -> Median_init(self.fill)
      [] self.cls = "Encoder" -> Encoder_init(self.use_frequency, self.freq_threshold)
      [] self.cls = "GroupByMoments" ->
           GroupByMoments_init(self.cat_names, self.cont_names, self.stats)

\* the chunks fed one after the other to the operator, then read_fin
RECURSIVE fit_chunks(_, _, _)
fit_chunks(self, chunks, eng) ==
    IF Len(chunks) = 0 THEN read_fin(self, eng)
    ELSE LET a == apply_op(self, Head(chunks), StatCtx, ALL, <<"base">>, eng)
         IN  IF a.err # "none" THEN a ELSE fit_chunks(a.self, Tail(chunks), eng)

\* the finished statistics of an operator, as its stats_collected lists them
finished_stats(self) ==
    CASE self.cls = "MinMax" -> <<self.mins, self.maxs>>
      [] self.cls = "Moments" -> <<self.means, self.stds, self.varis, self.counts>>
      [] self.cls = "Median" -> <<self.medians>>
      [] self.cls = "Encoder" -> <<self.encoders, self.categories>>
      [] self.cls = "GroupByMoments" -> <<self.moments, self.categories>>

\* C18: clear() called in any state of a Stat Operator (before any chunk is
\* finalized, mid-accumulation, after finalize or after a failed call) leaves
\* it as its constructor built it, every per-column map empty; and accumulating
\* and finalizing chunks after clear() yields the finished statistics a
\* freshly constructed operator yields on the same chunks.
C18_ClearResets ==
    [][/\ lastAct' = "clear" => op' = fresh_operator(op)
       /\ (lastAct' = "read_fin" /\ err' = "none") =>
             LET f == fit_chunks(fresh_operator(op), fed, engine)
             IN  f.err = "none" /\ finished_stats(op') = finished_stats(f.self)]_vars

\* a MinMax that has just been cleared (clear() follows an apply_op or a read_fin)
C18_Witness ==
    /\ op.cls = "MinMax"
    /\ lastAct = "clear"
    /\ op.mins = EmptyDict
    /\ op.batch_mins = EmptyDict

\* ---------------------------------------------------------------------- C19
\* the running aggregate of an operator: what apply_op accumulates into
running_aggregate(self) ==
    CASE self.cls = "MinMax" -> <<self.batch_mins, self.batch_maxs>>
      [] self.cls = "Moments" -> <<self.counts, self.means, self.varis>>
      [] self.cls = "Median" -> <<self.batch_medians>>
      [] OTHER -> <<>>

\* no per-chunk entry of a MinMax is NaN (the minimum of a chunk without a
\* present value)
no_nan_entry(self) ==
    self.cls = "MinMax" =>
        \A c \in DOMAIN self.batch_mins :
            \A i \in DOMAIN self.batch_mins[c] :
                self.batch_mins[c][i] # NaN /\ self.batch_maxs[c][i] # NaN

\* C19 as claimed: read_fin leaves every column's running aggregate (MinMax
\* batch_mins/batch_maxs, Moments counts/means/varis, Median batch_medians,
\* the order of the per-chunk entries included) exactly as the last apply_op
\* left it (here for aggregates that hold no NaN entry).
C19_ReadFinKeepsRunning ==
    [][(lastAct' = "read_fin" /\ no_nan_entry(op))
          => running_aggregate(op') = running_aggregate(op)]_vars

\* t holds the entries of s, each as often as s does
same_entries(s, t) ==
    /\ Len(s) = Len(t)
    /\ \A v \in Elems(s) \cup Elems(t) :
          Cardinality({i \in DOMAIN s : s[i] = v}) = Cardinality({i \in DOMAIN t : t[i] = v})

\* t is s, a NaN entry possibly turned into a null
same_but_nan(s, t) ==
    /\ Len(s) = Len(t)
    /\ \A i \in DOMAIN s : t[i] = s[i] \/ (s[i] = NaN /\ t[i] = None)

\* C19 as amended: read_fin leaves Moments' counts, means and varis as they
\* were and neither adds nor drops a recorded per-chunk entry or a column, but
\* it rewrites the lists of the other two: Median's batch_medians[col] is left
\* sorted in ascending order (the same entries, reordered), and MinMax's
\* batch_mins/batch_maxs[col] are replaced by their round trip through the
\* engine, entry by entry the same but for a NaN that may come back as null.
C19_ReadFinRewritesLists ==
    [][lastAct' = "read_fin" =>
          CASE op.cls = "Moments" ->
                 running_aggregate(op') = running_aggregate(op)
            [] op.cls = "Median" ->
                 /\ DOMAIN op'.batch_medians = DOMAIN op.batch_medians
                 /\ \A c \in DOMAIN op.batch_medians :
                       /\ same_entries(op.batch_medians[c], op'.batch_medians[c])
                       /\ \A i, j \in DOMAIN op'.batch_medians[c] :
                             i < j => op'.batch_medians[c][i] <= op'.batch_medians[c][j]
            [] op.cls = "MinMax" ->
                 /\ DOMAIN op'.batch_mins = DOMAIN op.batch_mins
                 /\ DOMAIN op'.batch_maxs = DOMAIN op.batch_maxs
                 /\ \A c \in DOMAIN op.batch_mins :
                       /\ same_but_nan(op.batch_mins[c], op'.batch_mins[c])
                       /\ same_but_nan(op.batch_maxs[c], op'.batch_maxs[c])
            [] OTHER -> TRUE]_vars

\* a Median finalized over the per-chunk entries of two chunks, now in
\* ascending order
C19_Witness ==
    /\ op.cls = "Median"
    /\ lastAct = "read_fin"
    /\ err = "none"
    /\ Len(fed) = 2
    /\ "x" \in DOMAIN op.batch_medians
    /\ op.batch_medians["x"] = <<0, 2>>

\* ---------------------------------------------------------------------- C20
\* the per-column maps of a MinMax, Moments or Median
column_maps(self) ==
    CASE self.cls = "MinMax" -> <<self.batch_mins, self.batch_maxs, self.mins, self.maxs>>
      [] self.cls = "Moments" -> <<self.counts, self.means, self.varis, self.stds>>
      [] self.cls = "Median" -> <<self.batch_medians, self.medians>>
      [] OTHER -> <<>>

\* C20: an apply_op call of MinMax, Moments or Median whose resolved target
\* columns are the set C changes the operator's per-column state only for the
\* columns in C: it creates entries for columns of C only, and the entries of
\* every column outside C are what they were before the call (so no column's
\* accumulator is another column's).
C20_OnlyTargetColumnsChange ==
    [][lastAct' = "apply_op" =>
          LET C == Elems(call'.target_columns)
          IN  \A k \in DOMAIN column_maps(op) :
                 LET old == column_maps(op)[k]
                     new == column_maps(op')[k]
                 IN  /\ DOMAIN new \subseteq (DOMAIN old \cup C)
                     /\ \A c \in DOMAIN old \ C :
                           c \in DOMAIN new /\ new[c] = old[c]]_vars

\* a MinMax fed a chunk on both columns and then a chunk on x alone
C20_Witness ==
    /\ op.cls = "MinMax"
    /\ lastAct = "apply_op"
    /\ err = "none"
    /\ call.target_columns = <<"x">>
    /\ "c" \in DOMAIN op.batch_mins
    /\ Len(op.batch_mins["c"]) = 1
    /\ Len(op.batch_mins["x"]) = 2

\* ---------------------------------------------------------------------- C21
\* C21: applying FillMissing a second time, to the chunk a FillMissing call
\* produced and with the same finished medians, completes and changes no
\* value: no target column of the second pass has a missing value left, and
\* every column of the chunk it returns holds the values it held in the chunk
\* it was given.
C21_SecondFillChangesNothing ==
    [][(lastAct' = "chain" /\ finished /\ op.cls = "FillMissing"
            /\ op'.cls = "FillMissing")
          => /\ err' = "none"
             /\ call'.gdf = gdf_out
             /\ \A n \in Elems(call'.target_columns) :
                   isna_sum(call'.gdf.data[n]) = 0
             /\ gdf_out'.data = gdf_out.data]_vars

\* the chunk's missing x was filled with the median by the first pass, and
\* the second pass has handed the filled chunk back
C21_Witness ==
    /\ lastAct = "chain"
    /\ finished
    /\ op.cls = "FillMissing"
    /\ Len(fed) = 3
    /\ fed[2].data["x"] = <<None>>
    /\ fed[3].data["x"] = <<Some(stats_context.medians["x"])>>
    /\ call.target_columns = <<"x">>
    /\ gdf_out = fed[3]

\* ---------------------------------------------------------------------- C22
\* C22: Encoder.apply_op creates the sub-encoder of a column once, on the
\* first chunk in which the column is a target, and reuses it for every later
\* chunk until clear(); each call feeds the column's chunk values to the
\* sub-encoder's fit exactly once, and the values fed are the chunk's own
\* values and a synthesized missing-value sentinel.
C22_EncoderFeedsSentinel ==
    (op.cls = "Encoder" /\ lastAct = "apply_op" /\ err = "none" /\ NoEmptyChunk) =>
        \A n \in Elems(ColOrder) :
            /\ n \in DOMAIN op.encoders
            /\ Len(op.encoders[n].fitted) = Len(fed)
            /\ \A i \in DOMAIN fed :
                  op.encoders[n].fitted[i] = Append(fed[i].data[n], None)

\* ---------------------------------------------------------------------- C23
\* the rows of the chunk whose cell in column n holds the key
rows_with_key(gdf, n, key) ==
    Cardinality({i \in DOMAIN gdf.data[n] : gdf.data[n][i] = Some(key)})

\* the count the aggregate of column n holds for the key, 0 if it has none
count_of(self, n, key) ==
    IF n \in DOMAIN self.moments /\ key \in DOMAIN self.moments[n].table
    THEN self.moments[n].table[key].count ELSE 0

\* C23: GroupByMoments keeps a running aggregate only for the columns being
\* grouped on. The keys of moments are among cat_names; a call whose resolved
\* columns are all outside cat_names returns without error and changes
\* nothing; after a successful call every resolved column of cat_names has one
\* aggregate, created on first sight and added to afterwards (its count for a
\* key grows by the chunk's rows with that key); and read_fin then yields a
\* categories entry for exactly the keys of moments.
C23_AggregatesOnlyGroupedColumns ==
    [][(lastAct' = "apply_op" /\ op.cls = "GroupByMoments") =>
          LET C == Elems(call'.target_columns)
              cats == Elems(op.cat_names[1])
          IN  /\ DOMAIN op'.moments \subseteq cats
              /\ (C \cap cats = {}) => (err' = "none" /\ op' = op)
              /\ err' = "none" =>
                    /\ DOMAIN op'.moments = DOMAIN op.moments \cup (C \cap cats)
                    /\ \A n \in DOMAIN op'.moments : \A key \in 1..MaxFrameRows :
                          count_of(op', n, key) =
                             count_of(op, n, key)
                               + (IF n \in C THEN rows_with_key(call'.gdf, n, key) ELSE 0)
                    /\ DOMAIN read_fin(op', engine).self.categories = DOMAIN op'.moments]_vars

\* the aggregate of c, created by the first chunk, has counted the key 1 in
\* two chunks, the second of them after a call on the continuous columns only
C23_Witness ==
    /\ op.cls = "GroupByMoments"
    /\ lastAct = "apply_op"
    /\ err = "none"
    /\ DOMAIN op.moments = {"c"}
    /\ count_of(op, "c", 1) = 2

\* ---------------------------------------------------------------------- C24
\* C24: a statistics operator's apply_op called with its default target_cols
\* resolves exactly the columns under the 'base' key of the given group, the
\* columns TransformOperator.apply_op resolves with its default target_cols,
\* and MinMax, Moments and Median then hold an entry for each of them.
C24_DefaultTargetsBase ==
    (lastAct = "apply_op" /\ err = "none"
       /\ call.target_cols = StatOperator_default_target_cols) =>
        LET base == get_columns(op.columns, columns_ctx, call.input_cols,
                                TransformOperator_default_target_cols).val
        IN  /\ call.target_columns = base
            /\ op.cls \in {"MinMax", "Moments", "Median"} =>
                  Elems(base) \subseteq DOMAIN column_maps(op)[1]

\* ---------------------------------------------------------------------- C25
\* C25: read_fin is idempotent on MinMax, Moments and Median. In every state
\* a read_fin that returned normally has left, a second read_fin, with no
\* apply_op in between, returns normally and leaves every finished statistic
\* (mins, maxs, means, vars, stds, medians) as the first call left it.
C25_ReadFinIdempotent ==
    (lastAct = "read_fin" /\ err = "none" /\ op.cls \in {"MinMax", "Moments", "Median"}) =>
        LET again == read_fin(op, engine)
        IN  /\ again.err = "none"
            /\ finished_values(again.self) = finished_values(op)

\* read_fin has run on the per-chunk entries 1 and 0 (the second chunk has no
\* row) and sorted them; the median it took is the one a second read_fin takes
C25_Witness ==
    /\ lastAct = "read_fin"
    /\ err = "none"
    /\ op.cls = "Median"
    /\ Len(fed) = 2
    /\ "x" \in DOMAIN op.batch_medians
    /\ Len(fed[1].data["x"]) > 0
    /\ Len(fed[2].data["x"]) = 0
    /\ op.batch_medians["x"] = <<0, 1>>
    /\ op.medians["x"] = 1
    /\ read_fin(op, engine).self.medians["x"] = 1

\* ---------------------------------------------------------------------- C26
\* C26: TransformOperator.apply_op writes its context entry only under the
\* operator's own default_out group, whatever input_cols it was passed. Every
\* other group is left as it was, the 'final' group's lists for the other
\* groups included, and within default_out no entry but the one keyed by the
\* operator's id is written or added.
C26_WritesOnlyDefaultOut ==
    [][Transformed' =>
          LET g == default_out(op')
              k == id_of(op')
          IN  /\ DOMAIN columns_ctx' = DOMAIN columns_ctx
              /\ \A grp \in Groups \ {g} :
                    /\ columns_ctx'[grp] = columns_ctx[grp]
                    /\ columns_ctx'.final.ctx[grp] = columns_ctx.final.ctx[grp]
              /\ DOMAIN columns_ctx'.final = DOMAIN columns_ctx.final
              /\ DOMAIN columns_ctx'.final.ctx = DOMAIN columns_ctx.final.ctx
              /\ DOMAIN columns_ctx'[g] \subseteq DOMAIN columns_ctx[g] \cup {k}
              /\ \A e \in DOMAIN columns_ctx[g] \ {k} :
                    /\ e \in DOMAIN columns_ctx'[g]
                    /\ columns_ctx'[g][e] = columns_ctx[g][e]]_vars

\* a non-preprocessing ZeroFill was handed the categorical group: its entry
\* and its place in the 'final' lists are under continuous, and the
\* categorical group holds what the dataset gave it
C26_Witness ==
    /\ lastAct = "transform"
    /\ err = "none"
    /\ op.cls = "ZeroFill"
    /\ ~op.preprocessing
    /\ call.input_cols = CAT
    /\ columns_ctx[CAT] = Ctx0[CAT]
    /\ columns_ctx[CONT]["ZeroFill"] = <<"c_ZeroFill">>
    /\ columns_ctx.final.ctx[CONT] = <<"ZeroFill">>
    /\ columns_ctx.final.ctx[CAT] = <<>>

\* ---------------------------------------------------------------------- C27
\* no element of the list occurs in it twice
no_duplicates(l) == \A i, j \in DOMAIN l : l[i] = l[j] => i = j

\* C27: over any sequence of apply_op calls no list of the 'final' group holds
\* an operator id twice; a call changes such a list only by appending the id
\* of the operator applied, and only if that operator has preprocessing=False
\* (so is not in the replace=True and preprocessing=True mode) and its id is
\* not in the list; an operator with preprocessing=True leaves the lists as
\* they were.
C27_FinalListsEachIdOnce ==
    [][Transformed' =>
          \A grp \in Groups :
             LET before == columns_ctx.final.ctx[grp]
                 after == columns_ctx'.final.ctx[grp]
             IN  /\ no_duplicates(after)
                 /\ \/ after = before
                    \/ /\ after = Append(before, id_of(op'))
                       /\ ~op'.preprocessing
                       /\ ~(op'.replace /\ op'.preprocessing)
                       /\ id_of(op') \notin Elems(before)
                 /\ op'.preprocessing => after = before]_vars

\* a non-preprocessing ZeroFill has been chained to the columns a ZeroFill
\* recorded, and the 'final' list of continuous holds the id once
C27_Witness ==
    /\ lastAct = "chain"
    /\ err = "none"
    /\ Len(fed) = 3
    /\ op.cls = "ZeroFill"
    /\ ~op.preprocessing
    /\ call.target_cols = <<"ZeroFill">>
    /\ Len(call.target_columns) > 0
    /\ columns_ctx.final.ctx[CONT] = <<"ZeroFill">>

\* ---------------------------------------------------------------------- C28
\* the apply_op calls that returned since construction or the last clear();
\* each of them targeted every column of the dataset
calls_returned ==
    IF lastAct = "apply_op" /\ err # "none" THEN Len(fed) - 1 ELSE Len(fed)

\* Python's a <= b on two finished values: False when either is NaN
py_le(a, b) == Len(a) = 1 /\ Len(b) = 1 /\ a[1] <= b[1]

\* the structural half of C28: batch_mins and batch_maxs have the same keys,
\* and the two lists of a column have one entry for each call that targeted it
C28_ListsInStep ==
    /\ DOMAIN op.batch_mins = DOMAIN op.batch_maxs
    /\ \A col \in DOMAIN op.batch_mins :
          /\ Len(op.batch_mins[col]) = calls_returned
          /\ Len(op.batch_maxs[col]) = calls_returned

\* C28: in every reachable state of MinMax, batch_mins and batch_maxs have the
\* same column keys and, for each column, lists of equal length, the number of
\* apply_op calls that targeted the column since construction or the last
\* clear(); after read_fin, mins and maxs have exactly those keys and
\* mins[col] <= maxs[col] for every column with a non-missing value (looked at
\* here where every chunk has rows).
C28_MinsBelowMaxs ==
    op.cls = "MinMax" =>
        /\ C28_ListsInStep
        /\ (lastAct = "read_fin" /\ err = "none") =>
              /\ DOMAIN op.mins = DOMAIN op.batch_mins
              /\ DOMAIN op.maxs = DOMAIN op.batch_mins
              /\ \A col \in DOMAIN op.mins :
                    (Len(valid(Dataset.data[col])) > 0 /\ NoEmptyChunk) =>
                        py_le(op.mins[col], op.maxs[col])

====
